---- MODULE Spec2Model ----
(***************************************************************************)
(* Model of the CSV ingestion pipeline of the reports web part:            *)
(*   CSVDataService (ChartComponent.tsx): locator construction, the        *)
(*   candidate-request loop of fetchCSVFromSharePoint, the module-level    *)
(*   cache, parseCSV and parseCSVLine;                                     *)
(*   CSVReportViewer.loadCSVFile and Reports.render (the viewer);          *)
(*   ReportsWebPart.buildDynamicToggles (the property pane).               *)
(*                                                                         *)
(* Text is a sequence of characters.  A character is a one-character       *)
(* string, or a word such as "Property" standing for a run of letters that *)
(* the code never looks inside (it holds no separator, quote, blank or     *)
(* digit).                                                                 *)
(***************************************************************************)
EXTENDS Integers, Sequences, FiniteSets, TLC

VARIABLES
    webServerRel,   \* context.pageContext.web.serverRelativeUrl
    properties,     \* the web part's properties: libraryName, folderPath, fileName
    cache,          \* CSVDataService._cache: locator -> CSVData
    fetch,          \* the fetchCSVFromSharePoint call of each caller
    viewer,         \* CSVReportViewer state
    pane,           \* ReportsWebPart.buildDynamicToggles
    locArgs,        \* arguments of a locator construction
    locator,        \* its results
    csvContent,     \* argument of parseCSV
    csvData,        \* its result
    fieldList,      \* fields handed to join(',')
    rawLine,        \* argument of parseCSVLine
    tokenized,      \* its result
    unitLabel,      \* argument of normalizeLabel
    unitKey,        \* its result
    selectedProperty,\* CSVReportViewer state.selectedProperty
    perTitleVisibility,\* CSVReportViewer state.perTitleVisibility
    chartVisibilities,\* CSVReportViewer props.chartVisibilities
    rendered,       \* what render shows
    printed,        \* what handlePrintAll or handleDownloadPDF has written
    listing,        \* the listCSVFiles call
    cacheCall       \* the last direct setCachedCSV or getCachedCSV call

vars == <<webServerRel, properties, cache, fetch, viewer, pane,
          locArgs, locator, csvContent, csvData,
          fieldList, rawLine, tokenized,
          unitLabel, unitKey,
          selectedProperty, perTitleVisibility, chartVisibilities, rendered, printed,
          listing,
          cacheCall>>

(***************************************************************************)
(* Text helpers                                                            *)
(***************************************************************************)

SeqsUpTo(S, n) == UNION {[1..k -> S] : k \in 0..n}

RECURSIVE Join(_, _)
\* Array.prototype.join: the parts with sep between them.
Join(parts, sep) ==
    IF parts = <<>> THEN <<>>
    ELSE IF Len(parts) = 1 THEN parts[1]
    ELSE parts[1] \o sep \o Join(Tail(parts), sep)

\* The fields of a line, joined with commas.
LineOf(fields) == Join(fields, <<",">>)

\* Characters String.prototype.trim removes.
WhiteSpace == {" ", "\n", "\r", "\t"}

RECURSIVE TrimStart(_)
TrimStart(s) ==
    IF s # <<>> /\ Head(s) \in WhiteSpace THEN TrimStart(Tail(s)) ELSE s

RECURSIVE TrimEnd(_)
TrimEnd(s) ==
    IF s # <<>> /\ s[Len(s)] \in WhiteSpace
    THEN TrimEnd(SubSeq(s, 1, Len(s) - 1)) ELSE s

\* String.prototype.trim
Trim(s) == TrimEnd(TrimStart(s))

\* String.prototype.split on the characters of seps: the pieces between
\* consecutive separators.  The empty text splits into one empty piece.
SplitOn(s, seps) ==
    LET cuts == {i \in 1..Len(s) : s[i] \in seps}
        cut(k) == IF k = 0 THEN 0
                  ELSE IF k > Cardinality(cuts) THEN Len(s) + 1
                  ELSE CHOOSE i \in cuts : Cardinality({j \in cuts : j < i}) = k - 1
    IN  [k \in 1..(Cardinality(cuts) + 1) |-> SubSeq(s, cut(k - 1) + 1, cut(k) - 1)]

\* String.prototype.split(sep) for a one-character sep.
Split(s, sep) == SplitOn(s, {sep})

Range(f) == {f[i] : i \in DOMAIN f}

UpperCase ==
    <<"A", "B", "C", "D", "E", "F", "G", "H", "I", "J", "K", "L", "M",
      "N", "O", "P", "Q", "R", "S", "T", "U", "V", "W", "X", "Y", "Z">>

LowerCase ==
    <<"a", "b", "c", "d", "e", "f", "g", "h", "i", "j", "k", "l", "m",
      "n", "o", "p", "q", "r", "s", "t", "u", "v", "w", "x", "y", "z">>

\* String.prototype.toLowerCase on the characters of the model.
LowerChar(c) ==
    CASE c \in {"Property", "PROPERTY"} -> "property"
      [] c \in {"Title", "TITLE"} -> "title"
      [] c \in {"Label", "LABEL"} -> "label"
      [] c \in {"Value", "VALUE"} -> "value"
      [] c \in {"TextData", "TEXTDATA"} -> "textdata"
      [] c \in {"ExportDate", "EXPORTDATE"} -> "exportdate"
      [] c \in Range(UpperCase) -> LowerCase[CHOOSE k \in 1..Len(UpperCase) : UpperCase[k] = c]
      [] OTHER -> c

ToLowerCase(s) == [i \in 1..Len(s) |-> LowerChar(s[i])]

(***************************************************************************)
(* Locator construction                                                    *)
(***************************************************************************)

\* replace(/\\/g, '/')
ReplaceBackslashes(s) == [i \in 1..Len(s) |-> IF s[i] = "\\" THEN "/" ELSE s[i]]

RECURSIVE ReplaceSlashPairs(_)
\* replace(/\/\//g, '/'): one left-to-right pass over non-overlapping "//".
ReplaceSlashPairs(s) ==
    IF Len(s) >= 2 /\ s[1] = "/" /\ s[2] = "/"
    THEN <<"/">> \o ReplaceSlashPairs(SubSeq(s, 3, Len(s)))
    ELSE IF s = <<>> THEN <<>>
    ELSE <<Head(s)>> \o ReplaceSlashPairs(Tail(s))

StartsWithSlash(s) == s # <<>> /\ s[1] = "/"

\* The parts array: folderPath is pushed only when truthy (non-empty).
PathParts(web, libraryName, folderPath, fileName) ==
    <<web, libraryName>>
        \o (IF folderPath # <<>> THEN <<folderPath>> ELSE <<>>)
        \o <<fileName>>

NormalizePath(parts) ==
    LET joined == ReplaceSlashPairs(ReplaceBackslashes(Join(parts, <<"/">>)))
    IN  IF StartsWithSlash(joined) THEN joined ELSE <<"/">> \o joined

\* CSVDataService.buildServerRelativePath
buildServerRelativePath(web, libraryName, folderPath, fileName) ==
    NormalizePath(PathParts(web, libraryName, folderPath, fileName))

\* Mutant of fetchServerRelativePath: the folder is never pushed.
fetchServerRelativePath_NoFolder(web, libraryName, folderPath, fileName) ==
    NormalizePath(<<web, libraryName, fileName>>)

\* The serverRelativePath that fetchCSVFromSharePoint computes inline.
fetchServerRelativePath(web, libraryName, folderPath, fileName) ==
    LET parts == <<web, libraryName>>
                    \o (IF folderPath # <<>> THEN <<folderPath>> ELSE <<>>)
                    \o <<fileName>>
        joined == ReplaceSlashPairs(ReplaceBackslashes(Join(parts, <<"/">>)))
    IN  IF StartsWithSlash(joined) THEN joined ELSE <<"/">> \o joined

(***************************************************************************)
(* parseCSVLine and parseCSV                                               *)
(***************************************************************************)

RECURSIVE ScanLine(_, _, _, _, _)
\* The loop of parseCSVLine at index i (1-based), with the field being read,
\* the quote flag and the fields pushed so far.
ScanLine(line, i, current, insideQuotes, result) ==
    IF i > Len(line) THEN Append(result, Trim(current))
    ELSE LET char == line[i]
             nextIsQuote == i + 1 <= Len(line) /\ line[i + 1] = "\""
         IN  IF char = "\""
             THEN IF insideQuotes /\ nextIsQuote
                  THEN ScanLine(line, i + 2, Append(current, "\""), insideQuotes, result)
                  ELSE ScanLine(line, i + 1, current, ~insideQuotes, result)
             ELSE IF char = "," /\ ~insideQuotes
             THEN ScanLine(line, i + 1, <<>>, insideQuotes, Append(result, Trim(current)))
             ELSE ScanLine(line, i + 1, Append(current, char), insideQuotes, result)

\* Mutant of parseCSVLine: every comma separates and quotes are kept as text.
parseCSVLine_SplitOnComma(line) ==
    [k \in 1..Len(Split(line, ",")) |-> Trim(Split(line, ",")[k])]

\* Mutant of parseCSVLine: empty fields are dropped from the result.
parseCSVLine_DropsEmptyFields(line) ==
    SelectSeq(ScanLine(line, 1, <<>>, FALSE, <<>>), LAMBDA f : f # <<>>)

\* Mutant of parseCSVLine: the field after the last comma is pushed only when
\* it is not empty.
parseCSVLine_NoTrailingEmpty(line) ==
    LET fields == ScanLine(line, 1, <<>>, FALSE, <<>>)
    IN  IF fields[Len(fields)] = <<>> THEN SubSeq(fields, 1, Len(fields) - 1)
        ELSE fields

\* Mutant of parseCSVLine: a comma ends the field also inside quotes.
parseCSVLine_CommaEndsQuote(line) ==
    [k \in 1..Len(Split(line, ",")) |->
        Trim(SelectSeq(Split(line, ",")[k], LAMBDA c : c # "\""))]

\* CSVDataService.parseCSVLine
parseCSVLine(line) == ScanLine(line, 1, <<>>, FALSE, <<>>)

baseHeaders == <<"Property", "Title", "Label", "Value", "TextData">>

expectedHeaders == baseHeaders \o <<"ExportDate">>

Digits == {"0", "1", "2", "3", "4", "5", "6", "7", "8", "9"}

DigitValue(c) ==
    CASE c = "0" -> 0 [] c = "1" -> 1 [] c = "2" -> 2 [] c = "3" -> 3
      [] c = "4" -> 4 [] c = "5" -> 5 [] c = "6" -> 6 [] c = "7" -> 7
      [] c = "8" -> 8 [] c = "9" -> 9

RECURSIVE DecimalValue(_)
DecimalValue(s) ==
    IF s = <<>> THEN 0
    ELSE 10 * DecimalValue(SubSeq(s, 1, Len(s) - 1)) + DigitValue(s[Len(s)])

\* isNaN(Number(value)) on the texts of the model: Number trims its argument,
\* reads the empty text as 0 and a run of digits as its decimal value, and
\* gives NaN for a text holding any other character of the model.
IsNaNNumber(value) == \E i \in 1..Len(Trim(value)) : Trim(value)[i] \notin Digits

\* Number(value), where it is not NaN.
Number(value) == DecimalValue(Trim(value))

StringCell(s) == [type |-> "string", str |-> s, num |-> 0]

NumberCell(n) == [type |-> "number", str |-> <<>>, num |-> n]

\* isNaN(Number(value)) ? value : Number(value)
Coerce(value) ==
    IF IsNaNNumber(value) THEN StringCell(value) ELSE NumberCell(Number(value))

\* rawHeaders.findIndex(rh => rh.trim().toLowerCase() === h.toLowerCase()):
\* the 0-based position of the first match, or -1.
FindIndex(rawHeaders, h) ==
    LET hits == {k \in 1..Len(rawHeaders) :
                    ToLowerCase(Trim(rawHeaders[k])) = ToLowerCase(<<h>>)}
    IN  IF hits = {} THEN -1
        ELSE (CHOOSE k \in hits : \A m \in hits : k <= m) - 1

\* expectedHeaders.map(h => found >= 0 ? found : -1)
NameIndexMap(rawHeaders) ==
    [j \in 1..Len(expectedHeaders) |-> FindIndex(rawHeaders, expectedHeaders[j])]

\* Mutant of AnyMatched: a header line needs every expected name.
AnyMatched_EveryMatched(indexMap) == \A j \in 1..Len(indexMap) : indexMap[j] >= 0

\* indexMap.some(i => i >= 0)
AnyMatched(indexMap) == \E j \in 1..Len(indexMap) : indexMap[j] >= 0

\* Mutant of PositionalHeaders: the arity of the first line is ignored.
PositionalHeaders_AlwaysBase(rawHeaders) == baseHeaders

\* The header list of a header-less file, by the arity of its first line.
PositionalHeaders(rawHeaders) ==
    IF Len(rawHeaders) = Len(baseHeaders) THEN baseHeaders
    ELSE IF Len(rawHeaders) >= Len(expectedHeaders) THEN expectedHeaders
    ELSE IF Len(rawHeaders) < Len(baseHeaders) /\ Len(rawHeaders) > 0
    THEN SubSeq(baseHeaders, 1, Len(rawHeaders))
    ELSE baseHeaders

\* Mutant of ResolveHeaders: a matched first line is still read as data.
ResolveHeaders_HeaderAsData(rawHeaders) ==
    LET indexMap == NameIndexMap(rawHeaders)
    IN  IF ~AnyMatched(indexMap)
        THEN [headers |-> PositionalHeaders(rawHeaders),
              indexMap |-> [j \in 1..Len(indexMap) |->
                              IF j <= Len(PositionalHeaders(rawHeaders))
                              THEN j - 1 ELSE indexMap[j]],
              dataStartIndex |-> 0]
        ELSE [headers |-> expectedHeaders,
              indexMap |-> indexMap,
              dataStartIndex |-> 0]

\* Mutant of ResolveHeaders: the index map of a header-less file is cut to
\* the length of its header list.
ResolveHeaders_TruncatesMap(rawHeaders) ==
    LET indexMap == NameIndexMap(rawHeaders)
    IN  IF ~AnyMatched(indexMap)
        THEN LET headers == PositionalHeaders(rawHeaders)
             IN  [headers |-> headers,
                  indexMap |-> [j \in 1..Len(headers) |-> j - 1],
                  dataStartIndex |-> 0]
        ELSE [headers |-> expectedHeaders,
              indexMap |-> indexMap,
              dataStartIndex |-> 1]

\* Header resolution of parseCSV: the header list, the index map (one entry
\* per expected header; entry j overwritten by j - 1 for every positional
\* header) and the index of the first data line.
ResolveHeaders(rawHeaders) ==
    LET indexMap == NameIndexMap(rawHeaders)
    IN  IF ~AnyMatched(indexMap)
        THEN LET headers == PositionalHeaders(rawHeaders)
             IN  [headers |-> headers,
                  indexMap |-> [j \in 1..Len(indexMap) |->
                                  IF j <= Len(headers) THEN j - 1 ELSE indexMap[j]],
                  dataStartIndex |-> 0]
        ELSE [headers |-> expectedHeaders,
              indexMap |-> indexMap,
              dataStartIndex |-> 1]

\* The source text of header position j of a tokenized line:
\* (srcIdx >= 0 && srcIdx < values.length ? values[srcIdx] : '') || ''
SourceText(values, indexMap, j) ==
    LET srcIdx == indexMap[j]
    IN  IF srcIdx >= 0 /\ srcIdx < Len(values) THEN values[srcIdx + 1] ELSE <<>>

\* The row object of one tokenized line: a later header of the same name
\* overwrites an earlier one.
MakeRow(values, headers, indexMap) ==
    [h \in {headers[j] : j \in 1..Len(headers)} |->
        LET last == CHOOSE j \in 1..Len(headers) :
                        /\ headers[j] = h
                        /\ \A m \in 1..Len(headers) : headers[m] = h => m <= j
        IN  Coerce(SourceText(values, indexMap, last))]

\* if (values.length === 0 || (values.length === 1 && values[0] === '')) continue
IsSkippedLine(values) ==
    Len(values) = 0 \/ (Len(values) = 1 /\ values[1] = <<>>)

RECURSIVE MaterializeFrom(_, _, _, _)
\* The data-row loop of parseCSV from line i (0-based) on.
MaterializeFrom(lines, i, headers, indexMap) ==
    IF i >= Len(lines) THEN <<>>
    ELSE LET values == parseCSVLine(lines[i + 1])
             rest == MaterializeFrom(lines, i + 1, headers, indexMap)
         IN  IF IsSkippedLine(values) THEN rest
             ELSE <<MakeRow(values, headers, indexMap)>> \o rest

\* csvContent.trim().split('\n')
ContentLines(content) == Split(Trim(content), "\n")

\* What a parseCSV call ends in: a CSVData, or a thrown Error.
Returned(headers, rows) ==
    [threw |-> FALSE, message |-> "", headers |-> headers, rows |-> rows]

Thrown(message) ==
    [threw |-> TRUE, message |-> message, headers |-> <<>>, rows |-> <<>>]

\* CSVDataService.parseCSV
parseCSV(content) ==
    LET lines == ContentLines(content)
    IN  IF Len(lines) = 0 THEN Thrown("Failed to parse CSV: CSV file is empty")
        ELSE LET r == ResolveHeaders(parseCSVLine(lines[1]))
             IN  Returned(r.headers,
                          MaterializeFrom(lines, r.dataStartIndex, r.headers, r.indexMap))

(***************************************************************************)
(* The cache and the candidate requests of fetchCSVFromSharePoint          *)
(***************************************************************************)

\* Mutant of setCachedCSV: a write to an existing entry adds its rows to the
\* entry instead of replacing it.
setCachedCSV_AppendsRows(c, serverRelativePath, data) ==
    IF serverRelativePath = <<>> THEN c
    ELSE [p \in (DOMAIN c) \cup {serverRelativePath} |->
            IF p # serverRelativePath THEN c[p]
            ELSE IF p \in DOMAIN c
                 THEN [headers |-> data.headers, rows |-> c[p].rows \o data.rows]
                 ELSE data]

\* CSVDataService.setCachedCSV: the cache after the call.
setCachedCSV(c, serverRelativePath, data) ==
    IF serverRelativePath = <<>> THEN c
    ELSE [p \in (DOMAIN c) \cup {serverRelativePath} |->
            IF p = serverRelativePath THEN data ELSE c[p]]

\* CSVDataService.getCachedCSV: the cached table, or nothing (undefined).
getCachedCSV(c, serverRelativePath) ==
    IF serverRelativePath = <<>> THEN <<>>
    ELSE IF serverRelativePath \in DOMAIN c THEN <<c[serverRelativePath]>>
    ELSE <<>>

\* encodeURIComponent on the characters of the model.
EncodeChar(c) ==
    CASE c = "/" -> "%2F"
      [] c = "\\" -> "%5C"
      [] c = " " -> "%20"
      [] c = "Shared Documents" -> "Shared%20Documents"
      [] OTHER -> c

encodeURIComponent(s) == [i \in 1..Len(s) |-> EncodeChar(s[i])]

\* Mutant of Attempts: the raw path form is pushed before the encoded one.
Attempts_RawFirst(serverRelativePath) ==
    <<[key |-> "path-raw",
       url |-> <<"siteUrl", "/_api/web/GetFileByServerRelativePath(decodedurl='">>
                 \o serverRelativePath \o <<"')/$value">>],
      [key |-> "path-encoded",
       url |-> <<"siteUrl", "/_api/web/GetFileByServerRelativePath(decodedurl='">>
                 \o encodeURIComponent(serverRelativePath) \o <<"')/$value">>],
      [key |-> "alias-encoded",
       url |-> <<"siteUrl", "/_api/web/GetFileByServerRelativeUrl(@v)/$value?@v='">>
                 \o encodeURIComponent(serverRelativePath) \o <<"'">>],
      [key |-> "alias-raw",
       url |-> <<"siteUrl", "/_api/web/GetFileByServerRelativeUrl(@v)/$value?@v='">>
                 \o serverRelativePath \o <<"'">>],
      [key |-> "download-sourceurl",
       url |-> <<"siteUrl", "/_layouts/15/download.aspx?SourceUrl=">>
                 \o encodeURIComponent(serverRelativePath)]>>

\* The attempts array: the candidate request forms, in the order pushed.
Attempts(serverRelativePath) ==
    <<[key |-> "path-encoded",
       url |-> <<"siteUrl", "/_api/web/GetFileByServerRelativePath(decodedurl='">>
                 \o encodeURIComponent(serverRelativePath) \o <<"')/$value">>],
      [key |-> "path-raw",
       url |-> <<"siteUrl", "/_api/web/GetFileByServerRelativePath(decodedurl='">>
                 \o serverRelativePath \o <<"')/$value">>],
      [key |-> "alias-encoded",
       url |-> <<"siteUrl", "/_api/web/GetFileByServerRelativeUrl(@v)/$value?@v='">>
                 \o encodeURIComponent(serverRelativePath) \o <<"'">>],
      [key |-> "alias-raw",
       url |-> <<"siteUrl", "/_api/web/GetFileByServerRelativeUrl(@v)/$value?@v='">>
                 \o serverRelativePath \o <<"'">>],
      [key |-> "download-sourceurl",
       url |-> <<"siteUrl", "/_layouts/15/download.aspx?SourceUrl=">>
                 \o encodeURIComponent(serverRelativePath)]>>

\* One entry of the errors array: "[key] " and the diagnostic text (the HTTP
\* status and body snippet, or the exception's message), which no step reads.
ErrorEntry(key) == <<"[", key, "] ", "diagnostic">>

\* The message of the Error a fetch throws when every attempt has failed:
\* the inner message with the joined entries, wrapped by the outer catch.
ExhaustedMessage(errors) ==
    <<"Failed to fetch CSV file: ",
      "Failed to fetch CSV file from SharePoint. Attempts:\n">>
        \o Join(errors, <<"\n">>)

\* The callers of fetchCSVFromSharePoint: CSVReportViewer.loadCSVFile and
\* ReportsWebPart.buildDynamicToggles.
Callers == {"viewer", "pane"}

\* No call in progress.
IdleCall ==
    [pc |-> "idle", libraryName |-> <<>>, folderPath |-> <<>>, fileName |-> <<>>,
     serverRelativePath |-> <<>>, requested |-> <<>>, ok |-> FALSE, sawOk |-> FALSE,
     errors |-> <<>>, body |-> <<>>, result |-> <<>>, message |-> <<>>]

\* fetchCSVFromSharePoint up to its first await: the locator, the attempts
\* and the first request.  requested is the history of the attempts requested.
StartFetch(web, libraryName, folderPath, fileName) ==
    LET path == fetchServerRelativePath(web, libraryName, folderPath, fileName)
    IN  [IdleCall EXCEPT !.pc = "get",
                         !.libraryName = libraryName,
                         !.folderPath = folderPath,
                         !.fileName = fileName,
                         !.serverRelativePath = path,
                         !.requested = <<Attempts(path)[1]>>]

\* Mutant of FailAttempt: only the last failure is kept.
FailAttempt_KeepsLast(call) ==
    LET attempts == Attempts(call.serverRelativePath)
        i == Len(call.requested)
        errors == <<ErrorEntry(call.requested[i].key)>>
    IN  IF i < Len(attempts)
        THEN [call EXCEPT !.pc = "get", !.errors = errors, !.ok = FALSE,
                          !.requested = Append(call.requested, attempts[i + 1])]
        ELSE [call EXCEPT !.pc = "threw", !.errors = errors, !.ok = FALSE,
                          !.message = ExhaustedMessage(errors)]

\* Mutant of FailAttempt: the failed attempt is requested again before the
\* loop moves on.
FailAttempt_Retries(call) ==
    LET attempts == Attempts(call.serverRelativePath)
        i == Len(call.requested)
        errors == Append(call.errors, ErrorEntry(call.requested[i].key))
    IN  IF i < Len(attempts)
        THEN [call EXCEPT !.pc = "get", !.errors = errors, !.ok = FALSE,
                          !.requested = Append(call.requested, call.requested[i])]
        ELSE [call EXCEPT !.pc = "threw", !.errors = errors, !.ok = FALSE,
                          !.message = ExhaustedMessage(errors)]

\* The current attempt has failed: its entry is pushed and the loop goes on
\* to the next attempt, or past the last one to the throw.
FailAttempt(call) ==
    LET attempts == Attempts(call.serverRelativePath)
        i == Len(call.requested)
        errors == Append(call.errors, ErrorEntry(call.requested[i].key))
    IN  IF i < Len(attempts)
        THEN [call EXCEPT !.pc = "get", !.errors = errors, !.ok = FALSE,
                          !.requested = Append(call.requested, attempts[i + 1])]
        ELSE [call EXCEPT !.pc = "threw", !.errors = errors, !.ok = FALSE,
                          !.message = ExhaustedMessage(errors)]

(***************************************************************************)
(* Variables a specification does not use keep these values.               *)
(***************************************************************************)

ServiceUnused ==
    /\ webServerRel = <<>> /\ properties = <<>> /\ cache = <<>>
    /\ fetch = <<>> /\ viewer = <<>> /\ pane = <<>>

LocatorUnused == locArgs = <<>> /\ locator = <<>>

ParseUnused == csvContent = <<>> /\ csvData = <<>>

TokenUnused == fieldList = <<>> /\ rawLine = <<>> /\ tokenized = <<>>

LabelUnused == unitLabel = <<>> /\ unitKey = <<>>

ReportUnused ==
    /\ selectedProperty = <<>> /\ perTitleVisibility = <<>>
    /\ chartVisibilities = <<>> /\ rendered = <<>> /\ printed = <<>>

ListUnused == listing = <<>>

CacheUnused == cacheCall = <<>>

serviceVars == <<webServerRel, properties, cache, fetch, viewer, pane>>

locatorVars == <<locArgs, locator>>

parseVars == <<csvContent, csvData>>

tokenVars == <<fieldList, rawLine, tokenized>>

labelVars == <<unitLabel, unitKey>>

reportVars == <<selectedProperty, perTitleVisibility, chartVisibilities, rendered, printed>>

listVars == <<listing>>

cacheVars == <<cacheCall>>

(***************************************************************************)
(* Spec: the viewer and the property pane of one web part, each fetching   *)
(* through CSVDataService and sharing its cache.  Every request ends in a  *)
(* success status, a failure status or a transport error; a body read may  *)
(* fail too; the store may return either of two file contents.             *)
(* The viewer runs one loadCSVFile at a time here, and the pane one        *)
(* buildDynamicToggles at a time.                                          *)
(***************************************************************************)

\* The web roots of the sites the web part is placed on.
WebRoots == {<<"/", "sites", "/", "hr">>}

FileNames == {<<"a.csv">>, <<"b.csv">>}

\* The texts the document store may return for a file.
Bodies ==
    {Join(<<LineOf(<<<<"Property">>, <<"Title">>, <<"Value">>>>),
            LineOf(<<<<"P1">>, <<"T1">>, <<"4">>>>)>>, <<"\n">>),
     LineOf(<<<<"P2">>, <<"T2">>, <<"x">>, <<"7">>, <<"n">>>>)}

\* The table of a parse result.
TableOf(parsed) == [headers |-> parsed.headers, rows |-> parsed.rows]

\* The props Reports.render hands to CSVReportViewer.
ReportsProps(p) ==
    [libraryName |-> IF p.libraryName # <<>> THEN p.libraryName ELSE <<"Shared Documents">>,
     folderPath |-> IF p.folderPath # <<>> THEN p.folderPath ELSE <<"Reports">>,
     fileName |-> p.fileName]

\* The state the CSVReportViewer constructor sets (null is the empty text).
ViewerInit(props) ==
    [data |-> <<>>, loading |-> FALSE, error |-> <<>>,
     selectedFile |-> props.fileName,
     libraryName |-> props.libraryName,
     folderPath |-> props.folderPath,
     fileName |-> props.fileName]

Init ==
    /\ webServerRel \in WebRoots
    /\ properties \in [libraryName : {<<>>, <<"Docs">>},
                       folderPath : {<<>>, <<"Reports">>, <<"Archive">>},
                       fileName : {<<>>, <<"a.csv">>}]
    /\ cache = <<>>
    /\ fetch = [c \in Callers |-> IdleCall]
    /\ viewer = ViewerInit(ReportsProps(properties))
    /\ pane = [csv |-> <<>>, fromCache |-> FALSE]
    /\ LocatorUnused /\ ParseUnused /\ TokenUnused /\ LabelUnused /\ ReportUnused /\ ListUnused /\ CacheUnused

\* CSVReportViewer.loadCSVFile(fileName) up to its await: the state update
\* and the call of fetchCSVFromSharePoint.
LoadCSVFile(fileName) ==
    /\ fetch["viewer"].pc = "idle"
    /\ viewer' = [viewer EXCEPT !.loading = TRUE, !.error = <<>>,
                                !.selectedFile = fileName]
    /\ fetch' = [fetch EXCEPT !["viewer"] =
                    StartFetch(webServerRel, viewer.libraryName, viewer.folderPath, fileName)]
    /\ UNCHANGED <<webServerRel, properties, cache, pane, locatorVars, parseVars, tokenVars, labelVars, reportVars, listVars, cacheVars>>

\* spHttpClient.get resolves with a response whose status is ok or not.
GetResolves(c, ok) ==
    /\ fetch[c].pc = "get"
    /\ fetch' = [fetch EXCEPT ![c] =
                    [@ EXCEPT !.pc = "text", !.ok = ok, !.sawOk = @ \/ ok]]
    /\ UNCHANGED <<webServerRel, properties, cache, viewer, pane, locatorVars, parseVars, tokenVars, labelVars, reportVars, listVars, cacheVars>>

\* Mutant of GetRejects: the catch goes on without pushing the error.
GetRejects_NoEntry(c) ==
    /\ fetch[c].pc = "get"
    /\ LET call == fetch[c]
           attempts == Attempts(call.serverRelativePath)
           i == Len(call.requested)
       IN  fetch' = [fetch EXCEPT ![c] =
              IF i < Len(attempts)
              THEN [call EXCEPT !.requested = Append(call.requested, attempts[i + 1])]
              ELSE [call EXCEPT !.pc = "threw",
                                !.message = ExhaustedMessage(call.errors)]]
    /\ UNCHANGED <<webServerRel, properties, cache, viewer, pane, locatorVars, parseVars, tokenVars, labelVars, reportVars, listVars, cacheVars>>

\* spHttpClient.get rejects: the catch of the loop body pushes the error.
GetRejects(c) ==
    /\ fetch[c].pc = "get"
    /\ fetch' = [fetch EXCEPT ![c] = FailAttempt(@)]
    /\ UNCHANGED <<webServerRel, properties, cache, viewer, pane, locatorVars, parseVars, tokenVars, labelVars, reportVars, listVars, cacheVars>>

\* response.text() settles on a failure status (a rejection there is caught
\* and read as ''): the entry is pushed and the loop continues.
DebugTextRead(c) ==
    /\ fetch[c].pc = "text" /\ ~fetch[c].ok
    /\ fetch' = [fetch EXCEPT ![c] = FailAttempt(@)]
    /\ UNCHANGED <<webServerRel, properties, cache, viewer, pane, locatorVars, parseVars, tokenVars, labelVars, reportVars, listVars, cacheVars>>

\* response.text() resolves on a success status: the content is parsed,
\* cached under the call's locator and returned.
ContentRead(c, content) ==
    /\ fetch[c].pc = "text" /\ fetch[c].ok
    /\ LET parsed == parseCSV(content)
       IN  IF parsed.threw
           THEN /\ fetch' = [fetch EXCEPT ![c] = FailAttempt(@)]
                /\ UNCHANGED cache
           ELSE /\ cache' = setCachedCSV(cache, fetch[c].serverRelativePath, TableOf(parsed))
                /\ fetch' = [fetch EXCEPT ![c] =
                                [@ EXCEPT !.pc = "returned", !.body = content,
                                          !.result = <<TableOf(parsed)>>]]
    /\ UNCHANGED <<webServerRel, properties, viewer, pane, locatorVars, parseVars, tokenVars, labelVars, reportVars, listVars, cacheVars>>

\* response.text() rejects on a success status: the catch of the loop body
\* pushes the error and the loop continues.
ContentReadFails(c) ==
    /\ fetch[c].pc = "text" /\ fetch[c].ok
    /\ fetch' = [fetch EXCEPT ![c] = FailAttempt(@)]
    /\ UNCHANGED <<webServerRel, properties, cache, viewer, pane, locatorVars, parseVars, tokenVars, labelVars, reportVars, listVars, cacheVars>>

\* loadCSVFile after its fetch has returned: the table is cached under the
\* locator built from the viewer's state and becomes state.data.
LoadReturned ==
    /\ fetch["viewer"].pc = "returned"
    /\ cache' = setCachedCSV(cache,
                    buildServerRelativePath(webServerRel, viewer.libraryName,
                                            viewer.folderPath, fetch["viewer"].fileName),
                    fetch["viewer"].result[1])
    /\ viewer' = [viewer EXCEPT !.data = fetch["viewer"].result, !.loading = FALSE]
    /\ fetch' = [fetch EXCEPT !["viewer"] = IdleCall]
    /\ UNCHANGED <<webServerRel, properties, pane, locatorVars, parseVars, tokenVars, labelVars, reportVars, listVars, cacheVars>>

\* loadCSVFile after its fetch has thrown: the catch sets the error.
LoadFailed ==
    /\ fetch["viewer"].pc = "threw"
    /\ viewer' = [viewer EXCEPT !.error = <<fetch["viewer"].message>>,
                                !.loading = FALSE, !.data = <<>>]
    /\ fetch' = [fetch EXCEPT !["viewer"] = IdleCall]
    /\ UNCHANGED <<webServerRel, properties, cache, pane, locatorVars, parseVars, tokenVars, labelVars, reportVars, listVars, cacheVars>>

\* ReportsWebPart.buildDynamicToggles up to its await: without a file name
\* it returns; a cached table is used as it is; otherwise the file is fetched.
BuildDynamicToggles ==
    /\ fetch["pane"].pc = "idle"
    /\ LET lib == IF properties.libraryName # <<>> THEN properties.libraryName
                  ELSE <<"Shared Documents">>
           folder == properties.folderPath
           file == properties.fileName
           serverRel == buildServerRelativePath(webServerRel, lib, folder, file)
           csv == getCachedCSV(cache, serverRel)
       IN  IF file = <<>>
           THEN /\ pane' = [csv |-> <<>>, fromCache |-> FALSE]
                /\ UNCHANGED fetch
           ELSE IF csv # <<>>
           THEN /\ pane' = [csv |-> csv, fromCache |-> TRUE]
                /\ UNCHANGED fetch
           ELSE /\ fetch' = [fetch EXCEPT !["pane"] = StartFetch(webServerRel, lib, folder, file)]
                /\ UNCHANGED pane
    /\ UNCHANGED <<webServerRel, properties, cache, viewer, locatorVars, parseVars, tokenVars, labelVars, reportVars, listVars, cacheVars>>

\* buildDynamicToggles after its fetch has returned.
PaneReturned ==
    /\ fetch["pane"].pc = "returned"
    /\ pane' = [csv |-> fetch["pane"].result, fromCache |-> FALSE]
    /\ fetch' = [fetch EXCEPT !["pane"] = IdleCall]
    /\ UNCHANGED <<webServerRel, properties, cache, viewer, locatorVars, parseVars, tokenVars, labelVars, reportVars, listVars, cacheVars>>

\* buildDynamicToggles after its fetch has thrown: the catch builds from the
\* persisted keys, without a table.
PaneFailed ==
    /\ fetch["pane"].pc = "threw"
    /\ pane' = [csv |-> <<>>, fromCache |-> FALSE]
    /\ fetch' = [fetch EXCEPT !["pane"] = IdleCall]
    /\ UNCHANGED <<webServerRel, properties, cache, viewer, locatorVars, parseVars, tokenVars, labelVars, reportVars, listVars, cacheVars>>

Next ==
    \/ \E f \in FileNames : LoadCSVFile(f)
    \/ \E c \in Callers, ok \in BOOLEAN : GetResolves(c, ok)
    \/ \E c \in Callers : GetRejects(c)
    \/ \E c \in Callers : DebugTextRead(c)
    \/ \E c \in Callers, content \in Bodies : ContentRead(c, content)
    \/ \E c \in Callers : ContentReadFails(c)
    \/ LoadReturned
    \/ LoadFailed
    \/ BuildDynamicToggles
    \/ PaneReturned
    \/ PaneFailed

Spec == Init /\ [][Next]_vars

(***************************************************************************)
(* SpecPath: locator construction over every web root, container,          *)
(* sub-path and leaf built from a separator, a backslash and a letter.     *)
(***************************************************************************)

PathChars == {"/", "\\", "a"}

MaxSegLen == 2

MaxLeafLen == 1

InitPath ==
    /\ locArgs \in [web : SeqsUpTo(PathChars, MaxSegLen),
                    libraryName : SeqsUpTo(PathChars, MaxSegLen),
                    folderPath : SeqsUpTo(PathChars, MaxSegLen),
                    fileName : SeqsUpTo(PathChars, MaxLeafLen)]
    /\ locator = [built |-> <<>>, fetched |-> <<>>]
    /\ ServiceUnused /\ ParseUnused /\ TokenUnused /\ LabelUnused /\ ReportUnused /\ ListUnused /\ CacheUnused

\* A call of buildServerRelativePath.
BuildLocator ==
    /\ locator.built = <<>>
    /\ locator' = [locator EXCEPT !.built =
            <<buildServerRelativePath(locArgs.web, locArgs.libraryName,
                                      locArgs.folderPath, locArgs.fileName)>>]
    /\ UNCHANGED <<locArgs, serviceVars, parseVars, tokenVars, labelVars, reportVars, listVars, cacheVars>>

\* The locator computation at the head of fetchCSVFromSharePoint.
FetchLocator ==
    /\ locator.fetched = <<>>
    /\ locator' = [locator EXCEPT !.fetched =
            <<fetchServerRelativePath(locArgs.web, locArgs.libraryName,
                                      locArgs.folderPath, locArgs.fileName)>>]
    /\ UNCHANGED <<locArgs, serviceVars, parseVars, tokenVars, labelVars, reportVars, listVars, cacheVars>>

NextPath == BuildLocator \/ FetchLocator

SpecPath == InitPath /\ [][NextPath]_vars

\* The locators computed so far.
Locators == {locator.built[i] : i \in 1..Len(locator.built)}
                \cup {locator.fetched[i] : i \in 1..Len(locator.fetched)}

SingleLeadingSlash(p) ==
    /\ p # <<>> /\ p[1] = "/"
    /\ (Len(p) >= 2 => p[2] # "/")

NoAdjacentSlashes(p) == \A i \in 1..(Len(p) - 1) : ~(p[i] = "/" /\ p[i + 1] = "/")

\* C6: every locator built by buildServerRelativePath or inside
\* fetchCSVFromSharePoint begins with exactly one "/" and holds no two
\* adjacent "/" characters.
C6_LocatorNormalized ==
    \A p \in Locators : SingleLeadingSlash(p) /\ NoAdjacentSlashes(p)

(***************************************************************************)
(* SpecParse: parseCSV over files made of a first line (every selection of *)
(* the expected header names, some reordered, re-cased or repeated ones,   *)
(* and header-less lines of 1..MaxCols fields) followed by up to           *)
(* MaxDataLines data lines, with and without surrounding white space.      *)
(***************************************************************************)

MaxCols == 7

MaxDataLines == 2

RECURSIVE SelectNames(_, _)
\* The names of a list that a set of positions selects, in order.
SelectNames(names, keep) ==
    IF names = <<>> THEN <<>>
    ELSE (IF Len(names) \in keep THEN SelectNames(SubSeq(names, 1, Len(names) - 1), keep)
                                        \o <<<<names[Len(names)]>>>>
          ELSE SelectNames(SubSeq(names, 1, Len(names) - 1), keep))

HeaderLines ==
    {LineOf(SelectNames(expectedHeaders, keep)) :
        keep \in (SUBSET (1..Len(expectedHeaders))) \ {{}}}
    \cup {LineOf(<<<<"title">>, <<"PROPERTY">>>>),
          LineOf(<<<<"P1">>, <<"Title">>, <<"x">>, <<"Title">>>>),
          LineOf(<<<<" ", "Value", " ">>, <<"Label">>>>),
          LineOf(<<<<"P1">>, <<"4">>, <<"VALUE">>>>)}

\* A header-less line of n fields: words and numbers in turn.
PlainLine(n) ==
    LineOf([k \in 1..n |-> IF k % 2 = 1 THEN <<"P1">> ELSE <<"4", "5">>])

DataLines ==
    {<<>>,
     <<" ">>,
     <<"\"", "\"">>,
     LineOf(<<<<>>, <<>>, <<>>>>),
     LineOf(<<<<"P1">>, <<>>, <<"4">>>>),
     LineOf(<<<<"P2">>, <<"T1">>, <<"x">>, <<"0", "7">>, <<"n">>, <<"x", "4">>>>),
     <<"\"", "P1", ",", "x", "\"", ",", "4">>}

FirstLines == HeaderLines \cup DataLines \cup {PlainLine(n) : n \in 1..MaxCols}

FileLines ==
    {<<first>> \o rest : first \in FirstLines, rest \in SeqsUpTo(DataLines, MaxDataLines)}

Contents ==
    {Join(ls, <<"\n">>) : ls \in FileLines}
        \cup {<<" ", "\n">> \o Join(ls, <<"\n">>) \o <<"\n", " ">> : ls \in FileLines}

InitParse ==
    /\ csvContent \in Contents
    /\ csvData = <<>>
    /\ ServiceUnused /\ LocatorUnused /\ TokenUnused /\ LabelUnused /\ ReportUnused /\ ListUnused /\ CacheUnused

\* A call parseCSV(csvContent).
ParseCSV ==
    /\ csvData = <<>>
    /\ csvData' = <<parseCSV(csvContent)>>
    /\ UNCHANGED <<csvContent, serviceVars, locatorVars, tokenVars, labelVars, reportVars, listVars, cacheVars>>

NextParse == ParseCSV

SpecParse == InitParse /\ [][NextParse]_vars

(***************************************************************************)
(* Properties of parseCSV                                                  *)
(***************************************************************************)

\* The fields of the first line of the parsed file.
FirstFields == parseCSVLine(ContentLines(csvContent)[1])

RECURSIVE KeptLines(_, _)
\* The tokenized lines from line i (0-based) on that the row loop does not
\* skip, in order: row k of the result is made from the k-th of them.
KeptLines(lines, i) ==
    IF i >= Len(lines) THEN <<>>
    ELSE LET values == parseCSVLine(lines[i + 1])
         IN  (IF IsSkippedLine(values) THEN <<>> ELSE <<values>>)
                \o KeptLines(lines, i + 1)

\* The data lines behind the rows of the parsed file.
RowSources ==
    KeptLines(ContentLines(csvContent), ResolveHeaders(FirstFields).dataStartIndex)

\* Header position j has no source column in a tokenized line.
SourceAbsent(values, indexMap, j) == indexMap[j] < 0 \/ indexMap[j] >= Len(values)

Parsed == csvData # <<>> /\ ~csvData[1].threw

\* C7: every Row has exactly the returned headers as keys, and the value of a
\* header whose source column is absent is the empty string.
C7_RowsKeyedWithEmptyDefaults ==
    Parsed =>
        LET d == csvData[1]
            indexMap == ResolveHeaders(FirstFields).indexMap
        IN  /\ Len(d.rows) = Len(RowSources)
            /\ \A k \in 1..Len(d.rows) :
                /\ DOMAIN d.rows[k] = Range(d.headers)
                /\ \A j \in 1..Len(d.headers) :
                      SourceAbsent(RowSources[k], indexMap, j)
                          => d.rows[k][d.headers[j]] = StringCell(<<>>)

\* C8: parseCSV of a totally empty input (empty or only white space) throws
\* the "empty file" error instead of returning a table.
C8_EmptyInputFails ==
    (csvData # <<>> /\ Trim(csvContent) = <<>>)
        => (csvData[1].threw
            /\ csvData[1].message = "Failed to parse CSV: CSV file is empty")

BaseHeaderFields == [j \in 1..Len(baseHeaders) |-> <<baseHeaders[j]>>]

\* The row a tokenized line gives when header position j reads field j.
PositionalRow(values, headers) ==
    [h \in Range(headers) |->
        LET j == CHOOSE m \in 1..Len(headers) : headers[m] = h
        IN  Coerce(IF j <= Len(values) THEN values[j] ELSE <<>>)]

\* C9 as stated: a first line of exactly the five base names gives the
\* five-name header set, the identity index map and dataStartLine = 1, the
\* rows being those of the later lines.
C9_BaseHeaderLineGivesFiveHeaders ==
    (Parsed /\ FirstFields = BaseHeaderFields) =>
        /\ csvData[1].headers = baseHeaders
        /\ ResolveHeaders(FirstFields).dataStartIndex = 1
        /\ \A j \in 1..Len(baseHeaders) : ResolveHeaders(FirstFields).indexMap[j] = j - 1
        /\ Len(csvData[1].rows) = Len(KeptLines(ContentLines(csvContent), 1))

\* C9 amended: a first line of exactly the five base names gives the six
\* expected headers (the base names and ExportDate), an index map that is the
\* identity on the five base positions and absent (-1) for ExportDate, and
\* dataStartLine = 1: the rows are those of the later lines, read by position.
C9_BaseHeaderLineGivesExpectedHeaders ==
    (Parsed /\ FirstFields = BaseHeaderFields) =>
        LET r == ResolveHeaders(FirstFields)
            kept == KeptLines(ContentLines(csvContent), 1)
        IN  /\ csvData[1].headers = expectedHeaders
            /\ r.dataStartIndex = 1
            /\ r.indexMap = <<0, 1, 2, 3, 4, -1>>
            /\ Len(csvData[1].rows) = Len(kept)
            /\ \A k \in 1..Len(kept) : \A j \in 1..Len(baseHeaders) :
                  csvData[1].rows[k][baseHeaders[j]]
                      = PositionalRow(kept[k], baseHeaders)[baseHeaders[j]]

C9_Witness ==
    /\ Parsed /\ FirstFields = BaseHeaderFields
    /\ Len(csvData[1].rows) = 2
    /\ csvData[1].rows[1]["Property"] = StringCell(<<"P2">>)

\* No field of the first line is a canonical name.
HeaderLess ==
    \A k \in 1..Len(FirstFields) : \A j \in 1..Len(expectedHeaders) :
        ToLowerCase(Trim(FirstFields[k])) # ToLowerCase(<<expectedHeaders[j]>>)

\* The header list the arity n of a header-less first line calls for.
HeadersForArity(n) ==
    IF n = 5 THEN baseHeaders
    ELSE IF n >= 6 THEN expectedHeaders
    ELSE SubSeq(baseHeaders, 1, n)

\* The first line is read as header-less, by arity and position.
ReadPositionally ==
    LET r == ResolveHeaders(FirstFields)
    IN  /\ csvData[1].headers = HeadersForArity(Len(FirstFields))
        /\ r.dataStartIndex = 0
        /\ \A j \in 1..Len(csvData[1].headers) : r.indexMap[j] = j - 1

FirstLineIsFirstRow ==
    /\ Len(csvData[1].rows) >= 1
    /\ csvData[1].rows[1] = PositionalRow(FirstFields, csvData[1].headers)
    /\ Len(csvData[1].rows) = 1 + Len(KeptLines(ContentLines(csvContent), 1))

AttemptKeys ==
    <<"path-encoded", "path-raw", "alias-encoded", "alias-raw", "download-sourceurl">>

\* The keys of the attempts a call has requested, in request order.
RequestedKeys(call) == [k \in 1..Len(call.requested) |-> call.requested[k].key]

\* The attempts requested are the first ones of the fixed order.
InFixedOrder(call) ==
    /\ Len(call.requested) <= Len(AttemptKeys)
    /\ RequestedKeys(call) = SubSeq(AttemptKeys, 1, Len(call.requested))

\* A returned call returns the parse of the body of the last attempt requested.
ReturnsLastBody(call) ==
    call.pc = "returned" =>
        /\ call.ok
        /\ call.body \in Bodies
        /\ call.result = <<TableOf(parseCSV(call.body))>>

\* C1 as stated: the candidates are requested in the fixed order, the first
\* success status ends the call with that candidate's parsed body, and no
\* candidate is requested after a success status.
C1_FirstSuccessStatusEndsCall ==
    \A c \in Callers :
        /\ InFixedOrder(fetch[c])
        /\ ReturnsLastBody(fetch[c])
        /\ fetch[c].sawOk => (fetch[c].ok /\ fetch[c].pc \in {"text", "returned"})

\* C1 amended: the candidates are requested in the fixed order; a call that
\* returns returns the parsed body of the last candidate requested, whose
\* status was a success and whose body was read, and requests nothing after
\* it; a candidate whose status is a success but whose body cannot be read
\* counts as failed, and the next candidate is requested.
C1_FirstReadableSuccessEndsCall ==
    \A c \in Callers :
        /\ InFixedOrder(fetch[c])
        /\ ReturnsLastBody(fetch[c])
        /\ fetch[c].pc \in {"get", "text", "returned"}
              => Len(fetch[c].errors) = Len(fetch[c].requested) - 1
        /\ fetch[c].pc = "threw" => Len(fetch[c].errors) = Len(fetch[c].requested)

C1_Witness ==
    /\ fetch["viewer"].pc = "returned"
    /\ RequestedKeys(fetch["viewer"]) = <<"path-encoded", "path-raw">>
    /\ fetch["viewer"].result = <<TableOf(parseCSV(fetch["viewer"].body))>>

\* The entries of the message of an exhausted fetch, split at the newlines.
MessageEntries(message) == Split(SubSeq(message, 3, Len(message)), "\n")

\* C2: when every candidate has failed the call throws one composite error
\* whose message holds exactly one entry per candidate, in attempt order.
C2_ExhaustionListsEveryCandidate ==
    \A c \in Callers :
        fetch[c].pc = "threw" =>
            /\ RequestedKeys(fetch[c]) = AttemptKeys
            /\ Len(MessageEntries(fetch[c].message)) = Len(AttemptKeys)
            /\ \A k \in 1..Len(AttemptKeys) :
                  MessageEntries(fetch[c].message)[k] = ErrorEntry(AttemptKeys[k])

C2_Witness ==
    /\ fetch["pane"].pc = "threw"
    /\ Len(MessageEntries(fetch["pane"].message)) = 5

\* C3: when the k-th candidate is the first to succeed, the errors list holds
\* exactly k - 1 entries, one per earlier candidate, in attempt order.
C3_FailuresBeforeSuccess ==
    \A c \in Callers :
        fetch[c].pc = "returned" =>
            /\ Len(fetch[c].errors) = Len(fetch[c].requested) - 1
            /\ \A k \in 1..Len(fetch[c].errors) :
                  fetch[c].errors[k] = ErrorEntry(AttemptKeys[k])

C3_Witness ==
    /\ fetch["viewer"].pc = "returned"
    /\ fetch["viewer"].requested[Len(fetch["viewer"].requested)].key = "alias-encoded"
    /\ Len(fetch["viewer"].errors) = 2

\* C4: when a fetch of (library, folder, file) returns, getCachedCSV of the
\* locator buildServerRelativePath gives for the same triple returns the
\* table the fetch returned.
C4_FetchCachesUnderBuiltLocator ==
    [][\A c \in Callers :
          (fetch[c].pc # "returned" /\ fetch'[c].pc = "returned") =>
              getCachedCSV(cache',
                  buildServerRelativePath(webServerRel, fetch'[c].libraryName,
                                          fetch'[c].folderPath, fetch'[c].fileName))
                  = fetch'[c].result]_vars

C4_Witness ==
    /\ fetch["viewer"].pc = "returned"
    /\ fetch["viewer"].folderPath = <<"Archive">>
    /\ getCachedCSV(cache,
          buildServerRelativePath(webServerRel, fetch["viewer"].libraryName,
                                  <<"Archive">>, fetch["viewer"].fileName))
          = fetch["viewer"].result

\* The viewer holds the table of the file configured on the web part.
ViewerLoadedConfigured ==
    /\ properties.fileName # <<>>
    /\ viewer.selectedFile = properties.fileName
    /\ viewer.data # <<>> /\ ~viewer.loading

\* C5: once the viewer has loaded the configured file, buildDynamicToggles
\* takes the table from the cache and requests nothing.
C5_PaneReusesViewerCache ==
    [][(ViewerLoadedConfigured /\ fetch["pane"].pc = "idle" /\ <<pane, fetch["pane"]>>' # <<pane, fetch["pane"]>>)
          => (fetch'["pane"].pc = "idle" /\ pane'.fromCache /\ pane'.csv # <<>>)]_vars

(***************************************************************************)
(* Properties of the data-row loop of parseCSV                             *)
(***************************************************************************)

\* The lines of the parsed file that the row loop visits.
VisitedLines ==
    LET lines == ContentLines(csvContent)
    IN  SubSeq(lines, ResolveHeaders(FirstFields).dataStartIndex + 1, Len(lines))

\* A line holds a character that is neither white space nor a comma.
HasContent(line) == \E i \in 1..Len(line) : line[i] \notin WhiteSpace \cup {","}

\* C11: a data line of only white space and/or commas produces no Row: the
\* number of rows is the number of data lines that hold some character that
\* is neither white space nor a comma.
C11_BlankLinesProduceNoRow ==
    Parsed =>
        Len(csvData[1].rows)
            = Cardinality({i \in 1..Len(VisitedLines) : HasContent(VisitedLines[i])})

\* The text is a non-empty run of digits: it reads fully as a number.
IsNumberText(text) == text # <<>> /\ \A i \in 1..Len(text) : text[i] \in Digits

\* C12: a Row stores a number for a field exactly when the trimmed text of
\* the field reads fully as a number, and the trimmed text itself otherwise.
C12_NumberExactlyWhenNumeric ==
    Parsed =>
        LET d == csvData[1]
            indexMap == ResolveHeaders(FirstFields).indexMap
        IN  \A k \in 1..Len(d.rows) : \A j \in 1..Len(d.headers) :
                ~SourceAbsent(RowSources[k], indexMap, j) =>
                    LET text == RowSources[k][indexMap[j] + 1]
                    IN  d.rows[k][d.headers[j]]
                            = IF IsNumberText(text)
                              THEN NumberCell(DecimalValue(text))
                              ELSE StringCell(text)

(***************************************************************************)
(* SpecTokenize: parseCSVLine over every line of up to MaxLineLen          *)
(* characters (a letter, the comma, the quote, a blank) and the two lines  *)
(* of the documented quoting cases, and over the join of every list of up  *)
(* to MaxFields fields of up to MaxFieldLen comma-free, quote-free         *)
(* characters.                                                             *)
(***************************************************************************)

MaxLineLen == 6

MaxFields == 3

MaxFieldLen == 2

LineChars == {"a", ",", "\"", " "}

FieldChars == {"a", " "}

\* a,"b,c",d
QuotedCommaLine == <<"a", ",", "\"", "b", ",", "c", "\"", ",", "d">>

\* "a""b"
EscapedQuoteLine == <<"\"", "a", "\"", "\"", "b", "\"">>

RawLines == SeqsUpTo(LineChars, MaxLineLen) \cup {QuotedCommaLine, EscapedQuoteLine}

FieldLists == SeqsUpTo(SeqsUpTo(FieldChars, MaxFieldLen), MaxFields)

\* The line is any raw line, or the join with ',' of a field list that
\* fieldList then holds.
InitTokenize ==
    /\ \/ fieldList = <<>> /\ rawLine \in {<<l>> : l \in RawLines}
       \/ \E fields \in FieldLists :
            fieldList = <<fields>> /\ rawLine = <<LineOf(fields)>>
    /\ tokenized = <<>>
    /\ ServiceUnused /\ LocatorUnused /\ ParseUnused /\ LabelUnused /\ ReportUnused /\ ListUnused /\ CacheUnused

\* A call parseCSVLine(rawLine).
ParseCSVLine ==
    /\ tokenized = <<>>
    /\ tokenized' = <<parseCSVLine(rawLine[1])>>
    /\ UNCHANGED <<fieldList, rawLine, serviceVars, locatorVars, parseVars, labelVars, reportVars, listVars, cacheVars>>

NextTokenize == ParseCSVLine

SpecTokenize == InitTokenize /\ [][NextTokenize]_vars

(***************************************************************************)
(* Properties of parseCSVLine                                              *)
(***************************************************************************)

RECURSIVE WellEscaped(_)
\* Every quote of the text is one of a pair of adjacent quotes.
WellEscaped(body) ==
    IF body = <<>> THEN TRUE
    ELSE IF Head(body) # "\"" THEN WellEscaped(Tail(body))
    ELSE Len(body) >= 2 /\ body[2] = "\"" /\ WellEscaped(Tail(Tail(body)))

RECURSIVE Unescaped(_)
\* A well-escaped text with every pair of quotes read as one quote.
Unescaped(body) ==
    IF body = <<>> THEN <<>>
    ELSE IF Head(body) # "\"" THEN <<Head(body)>> \o Unescaped(Tail(body))
    ELSE <<"\"">> \o Unescaped(Tail(Tail(body)))

\* C13: inside a quoted field a comma is not a separator and a pair of
\* adjacent quotes is one literal quote that does not close the field: a line
\* that is one quoted field tokenizes to that single field, a,"b,c",d
\* tokenizes to [a, b,c, d] and "a""b" to the single field a"b.
C13_QuotedCommasAndEscapedQuotes ==
    tokenized # <<>> =>
        LET l == rawLine[1]
            body == SubSeq(l, 2, Len(l) - 1)
        IN  /\ l = QuotedCommaLine
                => tokenized[1] = <<<<"a">>, <<"b", ",", "c">>, <<"d">>>>
            /\ l = EscapedQuoteLine => tokenized[1] = <<<<"a", "\"", "b">>>>
            /\ (Len(l) >= 2 /\ l[1] = "\"" /\ l[Len(l)] = "\"" /\ WellEscaped(body))
                => tokenized[1] = <<Trim(Unescaped(body))>>

C13_Witness ==
    /\ tokenized # <<>>
    /\ rawLine[1] \in {QuotedCommaLine, <<"\"", ",", "\"", "\"", "a", "\"">>}

\* C14 as stated: tokenizing the join of a list of comma-free, quote-free
\* fields gives back the list itself.
C14_RoundTripExact ==
    (fieldList # <<>> /\ tokenized # <<>>) => tokenized[1] = fieldList[1]

\* C14 as the code has it: tokenizing the join of a non-empty list of
\* comma-free, quote-free fields gives the fields trimmed of surrounding white
\* space, in order (the list itself when no field has any); the join of the
\* empty list is the empty line, which tokenizes to one empty field.
C14_RoundTripTrimmed ==
    (fieldList # <<>> /\ tokenized # <<>>) =>
        LET fields == fieldList[1]
        IN  tokenized[1] = IF fields = <<>> THEN <<<<>>>>
                           ELSE [k \in 1..Len(fields) |-> Trim(fields[k])]

C14_Witness ==
    /\ fieldList # <<>> /\ tokenized # <<>>
    /\ Len(fieldList[1]) = MaxFields
    /\ fieldList[1][1] = <<" ", "a">>
    /\ fieldList[1][2] = <<>>
    /\ tokenized[1][1] = <<"a">>

(***************************************************************************)
(* Text operations of CSVReportViewer                                      *)
(***************************************************************************)

\* indexOf(sub) >= 0
Contains(s, sub) ==
    \E i \in 1..(Len(s) - Len(sub) + 1) : SubSeq(s, i, i + Len(sub) - 1) = sub

\* s ends with the text suffix.
EndsWith(s, suffix) ==
    Len(s) >= Len(suffix) /\ SubSeq(s, Len(s) - Len(suffix) + 1, Len(s)) = suffix

RECURSIVE ReplaceAll(_, _, _)
\* replace(/pat/g, rep) for a literal, non-empty pat: one left-to-right pass
\* over the non-overlapping occurrences.
ReplaceAll(s, pat, rep) ==
    IF Len(s) < Len(pat) THEN s
    ELSE IF SubSeq(s, 1, Len(pat)) = pat
    THEN rep \o ReplaceAll(SubSeq(s, Len(pat) + 1, Len(s)), pat, rep)
    ELSE <<Head(s)>> \o ReplaceAll(Tail(s), pat, rep)

\* replace(/\s+/g, '')
RemoveWhiteSpace(s) == SelectSeq(s, LAMBDA c : c \notin WhiteSpace)

\* Mutant of normalizeLabel: a trailing "brs" is kept.
normalizeLabel_KeepsPlural(rawLabel) ==
    LET lowered == RemoveWhiteSpace(ToLowerCase(rawLabel))
        key == ReplaceAll(ReplaceAll(ReplaceAll(lowered, <<"o", "n", "e">>, <<"1">>),
                                     <<"t", "w", "o">>, <<"2">>), <<"t", "h", "r", "e", "e">>, <<"3">>)
    IN  IF Contains(key, <<"s", "t", "u", "d", "i", "o">>) \/ key = <<"s", "t">> THEN <<"s", "t", "u", "d", "i", "o">> ELSE key

\* getUnitTypeMap.normalizeLabel: lower case without white space, the number
\* words as digits, a trailing "brs" as "br", and any text holding "studio",
\* or the text "st", as "studio".  The last step, key.match(/^(\d)br$/i),
\* rebuilds the key it matched.
normalizeLabel(rawLabel) ==
    LET lowered == RemoveWhiteSpace(ToLowerCase(rawLabel))
        digits == ReplaceAll(ReplaceAll(ReplaceAll(lowered, <<"o", "n", "e">>, <<"1">>),
                                        <<"t", "w", "o">>, <<"2">>), <<"t", "h", "r", "e", "e">>, <<"3">>)
        key == IF EndsWith(digits, <<"b", "r", "s">>) THEN SubSeq(digits, 1, Len(digits) - 1)
               ELSE digits
    IN  IF Contains(key, <<"s", "t", "u", "d", "i", "o">>) \/ key = <<"s", "t">> THEN <<"s", "t", "u", "d", "i", "o">> ELSE key

(***************************************************************************)
(* SpecLabel: normalizeLabel over unit labels made of a count (a number    *)
(* word or a digit), an optional blank and a unit word, and over the       *)
(* studio labels.                                                          *)
(***************************************************************************)

CountWords ==
    {<<>>, <<"O", "n", "e">>, <<"o", "n", "e">>, <<"T", "w", "o">>, <<"T", "h", "r", "e", "e">>, <<"1">>, <<"2">>, <<"3">>, <<"4">>}

Gaps == {<<>>, <<" ">>}

UnitWords ==
    {<<>>, <<"B", "e", "d", "r", "o", "o", "m">>, <<"b", "e", "d", "r", "o", "o", "m">>, <<"B", "e", "d", "r", "o", "o", "m", "s">>, <<"B", "R">>, <<"B", "R", "s">>, <<"b", "r">>, <<"B", "r">>, <<"B", "R", "S">>, <<"B", "e", "d">>}

StudioLabels == {<<"S", "t", "u", "d", "i", "o">>, <<"S", "T">>, <<"S", "t">>, <<"s", "t", "u", "d", "i", "o", " ">>, <<"S", "t", "u", "d", "i", "o", " ", "A", "p", "t">>, <<"S", "t", "o", "n", "e">>}

UnitLabels ==
    {count \o gap \o unit : count \in CountWords, gap \in Gaps, unit \in UnitWords}
        \cup StudioLabels

InitLabel ==
    /\ unitLabel \in {<<l>> : l \in UnitLabels}
    /\ unitKey = <<>>
    /\ ServiceUnused /\ LocatorUnused /\ ParseUnused /\ TokenUnused /\ ReportUnused /\ ListUnused /\ CacheUnused

\* A call normalizeLabel(unitLabel).
NormalizeLabel ==
    /\ unitKey = <<>>
    /\ unitKey' = <<normalizeLabel(unitLabel[1])>>
    /\ UNCHANGED <<unitLabel, serviceVars, locatorVars, parseVars, tokenVars, reportVars, listVars, cacheVars>>

NextLabel == NormalizeLabel

SpecLabel == InitLabel /\ [][NextLabel]_vars

(***************************************************************************)
(* Properties of normalizeLabel                                            *)
(***************************************************************************)

\* C16 as stated: "One Bedroom", "1 BR" and "1BRs" normalize to 1br, and
\* "Studio" and "ST" to studio.
C16_BedroomLabelsAreBr ==
    unitKey # <<>> =>
        /\ unitLabel[1] \in {<<"O", "n", "e", " ", "B", "e", "d", "r", "o", "o", "m">>, <<"1", " ", "B", "R">>, <<"1", "B", "R", "s">>} => unitKey[1] = <<"1", "b", "r">>
        /\ unitLabel[1] \in {<<"S", "t", "u", "d", "i", "o">>, <<"S", "T">>} => unitKey[1] = <<"s", "t", "u", "d", "i", "o">>

\* C16 as the code has it: "One BR", "1 BR" and "1BRs" normalize to 1br,
\* "Studio" and "ST" to studio, and "One Bedroom", whose unit word is not
\* shortened, to 1bedroom.
C16_BrLabelsAreBr ==
    unitKey # <<>> =>
        /\ unitLabel[1] \in {<<"O", "n", "e", " ", "B", "R">>, <<"1", " ", "B", "R">>, <<"1", "B", "R", "s">>} => unitKey[1] = <<"1", "b", "r">>
        /\ unitLabel[1] \in {<<"S", "t", "u", "d", "i", "o">>, <<"S", "T">>} => unitKey[1] = <<"s", "t", "u", "d", "i", "o">>
        /\ unitLabel[1] = <<"O", "n", "e", " ", "B", "e", "d", "r", "o", "o", "m">> => unitKey[1] = <<"1", "b", "e", "d", "r", "o", "o", "m">>

C16_Witness ==
    /\ unitKey = <<<<"1", "b", "r">>>>
    /\ unitLabel[1] = <<"1", "B", "R", "s">>

(***************************************************************************)
(* CSVReportViewer: reading the cells of a row                             *)
(***************************************************************************)

\* A cell counts as true in r[k] || ...: a number other than 0, a text other
\* than the empty one.
Truthy(cell) == IF cell.type = "number" THEN cell.num # 0 ELSE cell.str # <<>>

DigitChar(d) == <<"0", "1", "2", "3", "4", "5", "6", "7", "8", "9">>[d + 1]

RECURSIVE NatText(_)
NatText(n) ==
    IF n < 10 THEN <<DigitChar(n)>> ELSE NatText(n \div 10) \o <<DigitChar(n % 10)>>

\* String(n) for an integer n.
NumText(n) == IF n < 0 THEN <<"-">> \o NatText(-n) ELSE NatText(n)

\* String(cell)
CellText(cell) == IF cell.type = "number" THEN NumText(cell.num) ELSE cell.str

RECURSIVE FirstTruthy(_, _)
\* String(r[k1] || r[k2] || ... || ''): a key the row does not have reads as
\* undefined.
FirstTruthy(r, keys) ==
    IF keys = <<>> THEN <<>>
    ELSE IF Head(keys) \in DOMAIN r /\ Truthy(r[Head(keys)])
    THEN CellText(r[Head(keys)])
    ELSE FirstTruthy(r, Tail(keys))

RECURSIVE CollapseWhiteSpace(_)
\* replace(/\s+/g, ' ')
CollapseWhiteSpace(s) ==
    IF s = <<>> THEN <<>>
    ELSE IF Head(s) \in WhiteSpace
    THEN <<" ">> \o CollapseWhiteSpace(TrimStart(s))
    ELSE <<Head(s)>> \o CollapseWhiteSpace(Tail(s))

UpperChar(c) ==
    IF c \in Range(LowerCase)
    THEN UpperCase[CHOOSE k \in 1..Len(LowerCase) : LowerCase[k] = c]
    ELSE c

\* CSVReportViewer.toTitleCase: the first character of every piece between
\* blanks in upper case.
toTitleCase(str) ==
    [i \in 1..Len(str) |->
        IF i = 1 \/ str[i - 1] = " " THEN UpperChar(str[i]) ELSE str[i]]

\* /a.*b/.test(s)
ContainsThen(s, a, b) ==
    \E i \in 1..(Len(s) - Len(a) + 1) :
        /\ SubSeq(s, i, i + Len(a) - 1) = a
        /\ Contains(SubSeq(s, i + Len(a), Len(s)), b)

(***************************************************************************)
(* CSVReportViewer.getPropertyDetails                                      *)
(***************************************************************************)

\* The title marks a property-detail row.
IsDetailTitle(title) ==
    \/ title = <<"p", "r", "o", "p", "e", "r", "t", "y", " ", "d", "e", "t", "a", "i", "l", "s">>
    \/ title = <<"p", "r", "o", "p", "e", "r", "t", "y", " ", "d", "e", "t", "a", "i", "l">>
    \/ title = <<"p", "r", "o", "p", "e", "r", "t", "y", " ", "d", "a", "t", "a">>
    \/ (Contains(title, <<"p", "r", "o", "p", "e", "r", "t", "y">>)
            /\ (Contains(title, <<"d", "e", "t", "a", "i", "l">>) \/ Contains(title, <<"d", "a", "t", "a">>)))

\* The detail rows of getPropertyDetails: the property is compared trimmed,
\* in its own letter case.
IsDetailRow(r, prop) ==
    /\ IsDetailTitle(ToLowerCase(Trim(FirstTruthy(r, <<"Title", "title">>))))
    /\ Trim(FirstTruthy(r, <<"Property", "property">>)) = Trim(prop)

\* What one detail row adds to the result: nothing, or one label and value.
DetailOf(r) ==
    LET firstLabel == Trim(FirstTruthy(r, <<"Label", "label", "LabelName", "labelName">>))
        normalizedLabel == IF firstLabel # <<>> THEN firstLabel
                           ELSE Trim(FirstTruthy(r, <<"Label", "label">>))
        textData == Trim(FirstTruthy(r, <<"TextData", "Text", "text">>))
        valueData == Trim(FirstTruthy(r, <<"Value", "ValueData", "Number", "value">>))
        value == IF textData # <<>> THEN textData ELSE valueData
        labelForDisplay == Trim(CollapseWhiteSpace(normalizedLabel))
    IN  IF labelForDisplay # <<>> /\ value # <<>>
        THEN <<[label |-> toTitleCase(labelForDisplay), value |-> value]>>
        ELSE IF value # <<>> THEN <<[label |-> <<"V", "a", "l", "u", "e">>, value |-> value]>>
        ELSE <<>>

RECURSIVE DetailsFrom(_, _)
DetailsFrom(rows, prop) ==
    IF rows = <<>> THEN <<>>
    ELSE (IF IsDetailRow(Head(rows), prop) THEN DetailOf(Head(rows)) ELSE <<>>)
            \o DetailsFrom(Tail(rows), prop)

getPropertyDetails(d, prop) == DetailsFrom(d.rows, prop)

(***************************************************************************)
(* CSVReportViewer.getUnitTypeMap                                          *)
(***************************************************************************)

Letters == Range(UpperCase) \cup Range(LowerCase)

\* [A-Za-z0-9\s]
LabelChars == Letters \cup Digits \cup WhiteSpace

\* The separators of a pair: the colon, the hyphen, the en dash and the em dash.
PairSeparators == {":", "-", "en dash", "em dash"}

\* [,;\n]
PairEnds == {",", ";", "\n"}

\* map[key] = value
PutUnit(map, key, value) ==
    [k \in (DOMAIN map) \cup {key} |-> IF k = key THEN value ELSE map[k]]

\* The position of the separator of the first match of
\* /([A-Za-z0-9\s]+?)\s*[:-]\s*([^,;\n]+)/ at or after position p of s,
\* or 0: a separator with a label character before it (at or after p) and a
\* character that does not end a pair after it.
NextPairSeparator(s, p) ==
    LET found == {e \in (p + 1)..(Len(s) - 1) :
                    /\ s[e] \in PairSeparators
                    /\ s[e - 1] \in LabelChars
                    /\ s[e + 1] \notin PairEnds}
    IN  IF found = {} THEN 0 ELSE CHOOSE e \in found : \A f \in found : e <= f

\* Where the label of the pair with separator e starts: the match starts at
\* the leftmost position from p on with only label characters up to e.
PairStart(s, p, e) ==
    CHOOSE b \in p..(e - 1) :
        /\ \A i \in b..(e - 1) : s[i] \in LabelChars
        /\ \A c \in p..(b - 1) : \E i \in c..(e - 1) : s[i] \notin LabelChars

\* Where the value of the pair with separator e ends: before the next
\* character that ends a pair, or at the end of s.
PairEnd(s, e) ==
    LET ends == {i \in (e + 1)..Len(s) : s[i] \in PairEnds}
    IN  IF ends = {} THEN Len(s) ELSE (CHOOSE i \in ends : \A j \in ends : i <= j) - 1

RECURSIVE PairsFrom(_, _, _)
\* The while loop of parsePairsFromString over the matches from p on.
PairsFrom(s, p, out) ==
    LET e == NextPairSeparator(s, p)
    IN  IF e = 0 THEN out
        ELSE LET lab == Trim(SubSeq(s, PairStart(s, p, e), e - 1))
                 val == Trim(SubSeq(s, e + 1, PairEnd(s, e)))
                 key == normalizeLabel(lab)
             IN  PairsFrom(s, PairEnd(s, e) + 1,
                           IF key # <<>> THEN PutUnit(out, key, val) ELSE out)

\* part.match(/^([A-Za-z0-9\s]+)\s+(\d+[\d,().-]*)$/) on a trimmed part: the
\* position of the blank between label and number, or 0.
TokenPairGap(part) ==
    LET blanks == {i \in 1..Len(part) : part[i] \in WhiteSpace}
        gap == CHOOSE i \in blanks : \A j \in blanks : j <= i
    IN  IF blanks = {} THEN 0
        ELSE IF /\ gap > 1 /\ gap < Len(part)
                /\ \A i \in 1..(gap - 1) : part[i] \in LabelChars
                /\ part[gap + 1] \in Digits
                /\ \A i \in (gap + 1)..Len(part) :
                        part[i] \in Digits \cup {",", "(", ")", ".", "-"}
        THEN gap ELSE 0

RECURSIVE TokenPairsFrom(_, _)
\* The fallback of parsePairsFromString over the parts between commas and
\* semicolons.
TokenPairsFrom(parts, out) ==
    IF parts = <<>> THEN out
    ELSE LET part == Trim(Head(parts))
             gap == TokenPairGap(part)
             key == normalizeLabel(Trim(SubSeq(part, 1, gap - 1)))
         IN  TokenPairsFrom(Tail(parts),
                 IF part # <<>> /\ gap > 0 /\ key # <<>>
                 THEN PutUnit(out, key, Trim(SubSeq(part, gap + 1, Len(part))))
                 ELSE out)

\* getUnitTypeMap.parsePairsFromString
parsePairsFromString(s) ==
    IF s = <<>> THEN <<>>
    ELSE IF NextPairSeparator(s, 1) # 0 THEN PairsFrom(s, 1, <<>>)
    ELSE TokenPairsFrom(SplitOn(s, {";", ","}), <<>>)

\* The candidate rows of getUnitTypeMap: the property is compared trimmed and
\* in lower case.
IsUnitCandidate(r, prop) ==
    LET title == ToLowerCase(Trim(FirstTruthy(r, <<"Title", "title">>)))
    IN  /\ ToLowerCase(Trim(FirstTruthy(r, <<"Property", "property">>)))
                = ToLowerCase(Trim(prop))
        /\ \/ Contains(title, <<"u", "n", "i", "t", " ", "t", "y", "p", "e">>) \/ Contains(title, <<"u", "n", "i", "t", " ", "t", "y", "p", "e", "s">>)
           \/ Contains(title, <<"u", "n", "i", "t", " ", "m", "i", "x">>) \/ Contains(title, <<"u", "n", "i", "t", "m", "i", "x">>)
           \/ (Contains(title, <<"p", "r", "o", "p", "e", "r", "t", "y">>)
                   /\ (Contains(title, <<"d", "e", "t", "a", "i", "l">>) \/ Contains(title, <<"d", "a", "t", "a">>)))

RECURSIVE MergeUnits(_, _, _)
\* Object.keys(parsed).forEach(k => { if (parsed[k]) map[k] = parsed[k] })
MergeUnits(map, parsed, keys) ==
    IF keys = {} THEN map
    ELSE LET k == CHOOSE x \in keys : TRUE
         IN  MergeUnits(IF parsed[k] # <<>> THEN PutUnit(map, k, parsed[k]) ELSE map,
                        parsed, keys \ {k})

\* Mutant of UnitsOfRow: a row with a label never enters the map.
UnitsOfRow_PairsOnly(map, r) ==
    MergeUnits(map,
        parsePairsFromString(Trim(FirstTruthy(r,
            <<"Value", "value", "ValueData", "Number", "TextData", "Text">>))),
        DOMAIN parsePairsFromString(Trim(FirstTruthy(r,
            <<"Value", "value", "ValueData", "Number", "TextData", "Text">>))))

\* What one candidate row does to the map.
UnitsOfRow(map, r) ==
    LET unitName == Trim(FirstTruthy(r, <<"Label", "label", "LabelName">>))
        rawValue == Trim(FirstTruthy(r,
                        <<"Value", "value", "ValueData", "Number", "TextData", "Text">>))
        key == normalizeLabel(unitName)
        parsed == parsePairsFromString(rawValue)
    IN  IF unitName # <<>> /\ rawValue # <<>> /\ key # <<>>
        THEN PutUnit(map, key, rawValue)
        ELSE IF rawValue # <<>> THEN MergeUnits(map, parsed, DOMAIN parsed)
        ELSE map

RECURSIVE UnitsFrom(_, _, _)
UnitsFrom(rows, prop, map) ==
    IF rows = <<>> THEN map
    ELSE UnitsFrom(Tail(rows), prop,
                   IF IsUnitCandidate(Head(rows), prop)
                   THEN UnitsOfRow(map, Head(rows)) ELSE map)

getUnitTypeMap(d, prop) == UnitsFrom(d.rows, prop, <<>>)

(***************************************************************************)
(* CSVReportViewer.extractNumber and getSimplePropertyDetails              *)
(***************************************************************************)

\* CSVReportViewer.extractNumber: nothing (null), or the number of the first
\* run of digits, negative when a minus sign stands right before it, once
\* parentheses and commas are removed.  The texts of the model hold no
\* decimal point.
extractNumber(val) ==
    LET cleaned == SelectSeq(val, LAMBDA c : c \notin {"(", ")", ","})
        starts == {i \in 1..Len(cleaned) :
                     \/ cleaned[i] \in Digits
                     \/ (cleaned[i] = "-" /\ i < Len(cleaned)
                            /\ cleaned[i + 1] \in Digits)}
        first == CHOOSE i \in starts : \A j \in starts : i <= j
        from == IF cleaned[first] = "-" THEN first + 1 ELSE first
        to == CHOOSE j \in from..Len(cleaned) :
                /\ \A i \in from..j : cleaned[i] \in Digits
                /\ (j = Len(cleaned) \/ cleaned[j + 1] \notin Digits)
    IN  IF starts = {} THEN <<>>
        ELSE IF cleaned[first] = "-" THEN <<0 - DecimalValue(SubSeq(cleaned, from, to))>>
        ELSE <<DecimalValue(SubSeq(cleaned, from, to))>>

canonicalOrder == <<<<"s", "t", "u", "d", "i", "o">>, <<"1", "b", "r">>, <<"2", "b", "r">>, <<"3", "b", "r">>>>

\* unitMap[k] counts as true: the key has a non-empty value.
HasUnit(unitMap, k) == k \in DOMAIN unitMap /\ unitMap[k] # <<>>

\* Mutant of SurfacedKeys: the key name is surfaced after the canonical keys.
SurfacedKeys_AlsoName(unitMap) ==
    SelectSeq(canonicalOrder \o <<<<"n", "a", "m", "e">>>>, LAMBDA k : HasUnit(unitMap, k))

\* canonicalOrder.filter(k => !!unitMap[k])
SurfacedKeys(unitMap) == SelectSeq(canonicalOrder, LAMBDA k : HasUnit(unitMap, k))

\* `${toTitleCase(k.replace(/br$/, 'BR'))}: ${unitMap[k]}`
UnitPart(k, v) ==
    toTitleCase(IF EndsWith(k, <<"b", "r">>) THEN SubSeq(k, 1, Len(k) - 2) \o <<"B", "R">> ELSE k)
        \o <<":", " ">> \o v

RECURSIVE SumUnits(_, _)
\* The sum of the numbers of the surfaced keys, and whether any had one.
SumUnits(unitMap, keys) ==
    IF keys = <<>> THEN [anyNumeric |-> FALSE, sum |-> 0]
    ELSE LET rest == SumUnits(unitMap, Tail(keys))
             num == extractNumber(unitMap[Head(keys)])
         IN  IF num = <<>> THEN rest
             ELSE [anyNumeric |-> TRUE, sum |-> num[1] + rest.sum]

NoDetails == [name |-> <<>>, location |-> <<>>, unitCount |-> <<>>, unitTypes |-> <<>>]

\* The label of a detail names the unit count.
IsUnitCountLabel(label) ==
    \/ label \in {<<"u", "n", "i", "t", " ", "c", "o", "u", "n", "t">>, <<"u", "n", "i", "t", "c", "o", "u", "n", "t">>, <<"t", "o", "t", "a", "l", " ", "u", "n", "i", "t", "s">>, <<"t", "o", "t", "a", "l", "u", "n", "i", "t", "s">>, <<"u", "n", "i", "t", "s">>}
    \/ ContainsThen(label, <<"t", "o", "t", "a", "l">>, <<"u", "n", "i", "t">>)
    \/ ContainsThen(label, <<"u", "n", "i", "t">>, <<"t", "o", "t", "a", "l">>)

\* What one detail does to the result of getSimplePropertyDetails: the first
\* value of each kind is kept.
NoteDetail(result, d) ==
    LET label == ToLowerCase(d.label)
    IN  IF d.value = <<>> THEN result
        ELSE IF Contains(label, <<"n", "a", "m", "e">>)
        THEN (IF result.name = <<>> THEN [result EXCEPT !.name = d.value] ELSE result)
        ELSE IF Contains(label, <<"l", "o", "c", "a", "t", "i", "o", "n">>)
        THEN (IF result.location = <<>> THEN [result EXCEPT !.location = d.value]
              ELSE result)
        ELSE IF IsUnitCountLabel(label)
        THEN (IF result.unitCount = <<>> THEN [result EXCEPT !.unitCount = d.value]
              ELSE result)
        ELSE IF \/ Contains(label, <<"u", "n", "i", "t", " ", "t", "y", "p", "e">>) \/ Contains(label, <<"u", "n", "i", "t", " ", "t", "y", "p", "e", "s">>)
                \/ Contains(label, <<"u", "n", "i", "t", "m", "i", "x">>) \/ Contains(label, <<"u", "n", "i", "t", " ", "m", "i", "x">>)
        THEN (IF result.unitTypes = <<>> THEN [result EXCEPT !.unitTypes = d.value]
              ELSE result)
        ELSE result

RECURSIVE NoteDetails(_, _)
NoteDetails(result, details) ==
    IF details = <<>> THEN result
    ELSE NoteDetails(NoteDetail(result, Head(details)), Tail(details))

\* CSVReportViewer.getSimplePropertyDetails: a field that is not set is the
\* empty text.
getSimplePropertyDetails(d, prop) ==
    LET details == getPropertyDetails(d, prop)
        noted == NoteDetails(NoDetails, details)
        unitMap == getUnitTypeMap(d, prop)
        keys == SurfacedKeys(unitMap)
        parts == [i \in 1..Len(keys) |-> UnitPart(keys[i], unitMap[keys[i]])]
        total == SumUnits(unitMap, keys)
    IN  IF details = <<>> THEN NoDetails
        ELSE IF parts = <<>> THEN noted
        ELSE [noted EXCEPT
                !.unitTypes = Join(parts, <<";", " ">>),
                !.unitCount = IF noted.unitCount = <<>> /\ total.anyNumeric
                              THEN NumText(total.sum) ELSE noted.unitCount]

\* toTitleCase(k.replace(/br$/, 'BR'))
UnitLabel(k) ==
    toTitleCase(IF EndsWith(k, <<"b", "r">>) THEN SubSeq(k, 1, Len(k) - 2) \o <<"B", "R">> ELSE k)

\* The rows of the unit-type table of the card and of the print window:
\* canonicalOrder.filter(k => !!unitMap[k]).map(k => label cell, value cell)
UnitRows(unitMap) ==
    LET ordered == SurfacedKeys(unitMap)
    IN  [i \in 1..Len(ordered) |->
            [label |-> UnitLabel(ordered[i]), value |-> unitMap[ordered[i]]]]

\* The unit-type lines of the PDF: one `label: value` line per surfaced key.
UnitLines(unitMap) ==
    LET ordered == SurfacedKeys(unitMap)
    IN  [i \in 1..Len(ordered) |-> UnitPart(ordered[i], unitMap[ordered[i]])]

(***************************************************************************)
(* CSVReportViewer.render: the charts of the selected property             *)
(***************************************************************************)

\* CSVReportViewer.sanitizeTitleKey
sanitizeTitleKey(title) ==
    [i \in 1..Len(title) |->
        IF title[i] \in Letters \cup Digits THEN title[i] ELSE "_"]

RECURSIVE Distinct(_)
\* Array.from(new Set(list)): the first occurrence of every value, in order.
Distinct(list) ==
    IF list = <<>> THEN <<>>
    ELSE LET before == Distinct(SubSeq(list, 1, Len(list) - 1))
             last == list[Len(list)]
         IN  IF last \in Range(before) THEN before ELSE Append(before, last)

\* String(r['Title'] || '').trim()
TitleOf(r) == Trim(FirstTruthy(r, <<"Title">>))

\* String(r['Property']) === prop
IsOfProperty(r, prop) == CellText(r["Property"]) = prop

\* The titles of the selected property, in order of first appearance.
ChartTitles(d, prop) ==
    LET ofProp == SelectSeq(d.rows, LAMBDA r : IsOfProperty(r, prop))
    IN  SelectSeq(Distinct([k \in 1..Len(ofProp) |-> TitleOf(ofProp[k])]),
                  LAMBDA t : t # <<>>)

\* A chart switched off in the property pane or in the viewer.
IsHidden(title, chartVis, perTitleVis) ==
    \/ (sanitizeTitleKey(title) \in DOMAIN chartVis /\ ~chartVis[sanitizeTitleKey(title)])
    \/ (title \in DOMAIN perTitleVis /\ ~perTitleVis[title])

\* The header the x axis (the one named label) or the y axis (the one named
\* value) reads, or the fallback.
AxisHeader(headers, name, fallback) ==
    LET hits == {k \in 1..Len(headers) : LowerChar(headers[k]) = name}
    IN  IF hits = {} THEN fallback
        ELSE headers[CHOOSE k \in hits : \A m \in hits : k <= m]

\* The chart of one title: the rows of the property with that title.
ChartOf(d, prop, title) ==
    [title |-> title,
     rows |-> SelectSeq(d.rows, LAMBDA r : IsOfProperty(r, prop) /\ TitleOf(r) = title),
     xAxis |-> AxisHeader(d.headers, "label",
                          IF Len(d.headers) >= 1 THEN d.headers[1] ELSE ""),
     yAxis |-> AxisHeader(d.headers, "value",
                          IF Len(d.headers) >= 2 THEN d.headers[2]
                          ELSE IF Len(d.headers) >= 1 THEN d.headers[1] ELSE "")]

\* The charts render shows for the selected property.
Charts(d, prop, chartVis, perTitleVis) ==
    LET shown == SelectSeq(ChartTitles(d, prop),
                           LAMBDA t : ~IsHidden(t, chartVis, perTitleVis))
    IN  [k \in 1..Len(shown) |-> ChartOf(d, prop, shown[k])]

(***************************************************************************)
(* SpecReport: the viewer with a loaded file.  The file has the five-name  *)
(* header line and up to MaxReportRows of the report lines below (chart    *)
(* rows of two properties, with a blank and a numeric title; unit-type     *)
(* rows with a label or a compound value; property-detail rows), or is one *)
(* of the documented files; the pane has switched off no chart or one.     *)
(***************************************************************************)

MaxReportRows == 2

ReportHeader ==
    LineOf(<<<<"Property">>, <<"Title">>, <<"Label">>, <<"Value">>, <<"TextData">>>>)

ReportLines ==
    {<<"P", "1", ",", "X", ",", "a", ",", "1", ",">>,
     <<"P", "1", ",", "Y", ",", "b", ",", "2", ",">>,
     <<"P", "1", ",", ",", "c", ",", "3", ",">>,
     <<"P", "1", ",", "0", ",", "d", ",", "4", ",">>,
     <<"P", "2", ",", "X", ",", "a", ",", "5", ",">>,
     <<"p", "1", ",", "X", ",", "e", ",", "6", ",">>,
     <<"P", "1", ",", "U", "n", "i", "t", " ", "T", "y", "p", "e", "s", ",", "S", "t", "u", "d", "i", "o", ",", ",", "1", "0">>,
     <<"P", "1", ",", "U", "n", "i", "t", " ", "T", "y", "p", "e", "s", ",", "1", "B", "R", ",", ",", "2", "0">>,
     <<"P", "1", ",", "U", "n", "i", "t", " ", "T", "y", "p", "e", "s", ",", ",", ",", "\"", "S", "t", "u", "d", "i", "o", ":", " ", "1", "0", ";", " ", "2", "B", "R", " ", "-", " ", "5", "\"">>,
     <<"P", "1", ",", "P", "r", "o", "p", "e", "r", "t", "y", " ", "D", "a", "t", "a", ",", "N", "a", "m", "e", ",", ",", "L", "a", "k", "e", "v", "i", "e", "w">>,
     <<"P", "1", ",", "P", "r", "o", "p", "e", "r", "t", "y", " ", "D", "a", "t", "a", ",", "T", "o", "t", "a", "l", " ", "U", "n", "i", "t", "s", ",", "5", "0", ",">>,
     <<"P", "2", ",", "U", "n", "i", "t", " ", "M", "i", "x", ",", "3", " ", "B", "R", "s", ",", ",", "\"", "1", ",", "2", "0", "0", "\"">>,
     <<"P", "1", ",", "U", "n", "i", "t", " ", "M", "i", "x", ",", "3", "B", "R", ",", ",", "n", "/", "a">>}

ReportFile(dataLines) == Join(<<ReportHeader>> \o dataLines, <<"\n">>)

\* The file of the end-to-end scenario.
EndToEndContent ==
    ReportFile(<<<<"P", "1", ",", "P", "r", "o", "p", "e", "r", "t", "y", " ", "D", "a", "t", "a", ",", "N", "a", "m", "e", ",", ",", "L", "a", "k", "e", "v", "i", "e", "w">>,
                 <<"P", "1", ",", "U", "n", "i", "t", " ", "T", "y", "p", "e", "s", ",", "S", "t", "u", "d", "i", "o", ",", ",", "1", "0">>,
                 <<"P", "1", ",", "U", "n", "i", "t", " ", "T", "y", "p", "e", "s", ",", "1", "B", "R", ",", ",", "2", "0">>>>)

\* The unit map {studio: "10", 1br: "20", 2br: "15"} as a file of unit-type
\* rows, alone and next to a property-detail row.
UnitTotalContent ==
    ReportFile(<<<<"P", "1", ",", "U", "n", "i", "t", " ", "T", "y", "p", "e", "s", ",", "S", "t", "u", "d", "i", "o", ",", ",", "1", "0">>,
                 <<"P", "1", ",", "U", "n", "i", "t", " ", "T", "y", "p", "e", "s", ",", "1", "B", "R", ",", ",", "2", "0">>,
                 <<"P", "1", ",", "U", "n", "i", "t", " ", "T", "y", "p", "e", "s", ",", "2", "B", "R", ",", ",", "1", "5">>>>)

UnitTotalWithDetailContent ==
    ReportFile(<<<<"P", "1", ",", "P", "r", "o", "p", "e", "r", "t", "y", " ", "D", "a", "t", "a", ",", "N", "a", "m", "e", ",", ",", "L", "a", "k", "e", "v", "i", "e", "w">>,
                 <<"P", "1", ",", "U", "n", "i", "t", " ", "T", "y", "p", "e", "s", ",", "S", "t", "u", "d", "i", "o", ",", ",", "1", "0">>,
                 <<"P", "1", ",", "U", "n", "i", "t", " ", "T", "y", "p", "e", "s", ",", "1", "B", "R", ",", ",", "2", "0">>,
                 <<"P", "1", ",", "U", "n", "i", "t", " ", "T", "y", "p", "e", "s", ",", "2", "B", "R", ",", ",", "1", "5">>>>)

\* Unit types out of the canonical order, next to unit types that are not
\* canonical, under a property-detail row.
UnitOrderContent ==
    ReportFile(<<<<"P", "1", ",", "P", "r", "o", "p", "e", "r", "t", "y", " ", "D", "a", "t", "a", ",", "N", "a", "m", "e", ",", ",", "L", "a", "k", "e", "v", "i", "e", "w">>,
                 <<"P", "1", ",", "U", "n", "i", "t", " ", "T", "y", "p", "e", "s", ",", "4", "B", "R", ",", ",", "3">>,
                 <<"P", "1", ",", "U", "n", "i", "t", " ", "T", "y", "p", "e", "s", ",", "2", "B", "R", ",", ",", "1", "5">>,
                 <<"P", "1", ",", "U", "n", "i", "t", " ", "T", "y", "p", "e", "s", ",", "L", "o", "f", "t", ",", ",", "2">>,
                 <<"P", "1", ",", "U", "n", "i", "t", " ", "T", "y", "p", "e", "s", ",", "S", "t", "u", "d", "i", "o", ",", ",", "1", "0">>>>)

ReportContents ==
    {ReportFile(ls) : ls \in SeqsUpTo(ReportLines, MaxReportRows)}
        \cup {EndToEndContent, UnitTotalContent, UnitTotalWithDetailContent,
              UnitOrderContent}

\* The chartVisibilities the pane hands down: none, or one chart switched
\* off under its sanitized title.
ChartVisibilityProps ==
    {<<>>, [k \in {<<"X">>} |-> FALSE], [k \in {<<"U", "n", "i", "t", "_", "T", "y", "p", "e", "s">>} |-> FALSE]}

InitReport ==
    /\ csvContent \in ReportContents
    /\ csvData = <<>>
    /\ selectedProperty = <<>>
    /\ perTitleVisibility = <<>>
    /\ chartVisibilities \in ChartVisibilityProps
    /\ rendered = <<>>
    /\ printed = <<>>
    /\ ServiceUnused /\ LocatorUnused /\ TokenUnused /\ LabelUnused /\ ListUnused /\ CacheUnused

\* The options of the Property dropdown:
\* distinct String(r['Property'] || '').trim(), the empty one left out.
PropertyOptions(d) ==
    SelectSeq(Distinct([k \in 1..Len(d.rows) |->
                            Trim(FirstTruthy(d.rows[k], <<"Property">>))]),
              LAMBDA p : p # <<>>)

\* The perTitleVisibility loadCSVFile sets: every title of the second header,
\* shown unless chartVisibilities has an entry under the title itself.
VisibilityMap(d, chartVis) ==
    LET titleHeader == IF Len(d.headers) > 1 THEN d.headers[2] ELSE "Title"
        titles == {t \in {Trim(FirstTruthy(d.rows[k], <<titleHeader>>)) :
                            k \in 1..Len(d.rows)} : t # <<>>}
    IN  [t \in titles |-> IF t \in DOMAIN chartVis THEN chartVis[t] ELSE TRUE]

\* loadCSVFile once the fetch has returned the parse of the file: the data is
\* set, the first property is selected when none is, and the visibility of
\* every title is set.
DataLoaded ==
    /\ csvData = <<>>
    /\ LET d == parseCSV(csvContent)
           props == PropertyOptions(d)
       IN  /\ csvData' = <<d>>
           /\ selectedProperty' = IF selectedProperty = <<>> /\ props # <<>>
                                  THEN <<props[1]>> ELSE selectedProperty
           /\ perTitleVisibility' = VisibilityMap(d, chartVisibilities)
    /\ rendered' = <<>>
    /\ UNCHANGED <<csvContent, chartVisibilities, printed,
                   serviceVars, locatorVars, tokenVars, labelVars, listVars, cacheVars>>

\* handlePropertyChange with an option of the Property dropdown.
HandlePropertyChange ==
    /\ csvData # <<>>
    /\ \E k \in 1..Len(PropertyOptions(csvData[1])) :
            selectedProperty' = <<PropertyOptions(csvData[1])[k]>>
    /\ rendered' = <<>>
    /\ UNCHANGED <<csvContent, csvData, perTitleVisibility, chartVisibilities, printed,
                   serviceVars, locatorVars, tokenVars, labelVars, listVars, cacheVars>>

\* render with data: the property card and the charts of the selected
\* property, when there is one and the table has rows.
Render ==
    /\ csvData # <<>> /\ rendered = <<>>
    /\ LET d == csvData[1]
           shows == selectedProperty # <<>> /\ Len(d.rows) > 0
       IN  rendered' =
             <<[details |-> IF shows THEN getSimplePropertyDetails(d, selectedProperty[1])
                            ELSE NoDetails,
                unitMap |-> IF shows THEN getUnitTypeMap(d, selectedProperty[1])
                            ELSE <<>>,
                unitRows |-> IF shows THEN UnitRows(getUnitTypeMap(d, selectedProperty[1]))
                             ELSE <<>>,
                charts |-> IF shows
                           THEN Charts(d, selectedProperty[1],
                                       chartVisibilities, perTitleVisibility)
                           ELSE <<>>]>>
    /\ UNCHANGED <<csvContent, csvData, selectedProperty, perTitleVisibility,
                   chartVisibilities, printed, serviceVars, locatorVars, tokenVars, labelVars, listVars, cacheVars>>

\* handlePrintAll with at least one visible chart on the page: the Property
\* Data block of the selected property is written to the print window.  The
\* handler calls getSimplePropertyDetails and getUnitTypeMap on the state the
\* page was rendered from (every step that changes state.data or
\* state.selectedProperty clears rendered), so pd and unitMap are the values
\* render got from the same calls.
HandlePrintAll ==
    /\ rendered # <<>> /\ rendered[1].charts # <<>>
    /\ LET pd == rendered[1].details
           unitMap == rendered[1].unitMap
       IN  printed' = <<[output |-> "print", prop |-> selectedProperty[1],
                         unitCount |-> pd.unitCount,
                         unitRows |-> UnitRows(unitMap), unitLines |-> <<>>]>>
    /\ UNCHANGED <<csvContent, csvData, selectedProperty, perTitleVisibility,
                   chartVisibilities, rendered, serviceVars, locatorVars, tokenVars, labelVars, listVars, cacheVars>>

\* handleDownloadPDF with at least one visible chart on the page: the Property
\* Data lines of the selected property are written to the document; pd and
\* unitMap as in handlePrintAll.
HandleDownloadPDF ==
    /\ rendered # <<>> /\ rendered[1].charts # <<>>
    /\ LET pd == rendered[1].details
           unitMap == rendered[1].unitMap
       IN  printed' = <<[output |-> "pdf", prop |-> selectedProperty[1],
                         unitCount |-> pd.unitCount,
                         unitRows |-> <<>>, unitLines |-> UnitLines(unitMap)]>>
    /\ UNCHANGED <<csvContent, csvData, selectedProperty, perTitleVisibility,
                   chartVisibilities, rendered, serviceVars, locatorVars, tokenVars, labelVars, listVars, cacheVars>>

NextReport ==
    \/ DataLoaded
    \/ HandlePropertyChange
    \/ Render
    \/ HandlePrintAll
    \/ HandleDownloadPDF

SpecReport == InitReport /\ [][NextReport]_vars

(***************************************************************************)
(* Properties of the rendered report                                       *)
(***************************************************************************)

\* The table in the viewer.
LoadedData == csvData[1]

\* The Property and Title fields of the data line behind row k of the table.
SourceProperty(k) == SourceText(RowSources[k], ResolveHeaders(FirstFields).indexMap, 1)

SourceTitle(k) == SourceText(RowSources[k], ResolveHeaders(FirstFields).indexMap, 2)

\* The rows of the category with the title, by their position in the table.
Members(prop, title) ==
    {k \in 1..Len(LoadedData.rows) : SourceProperty(k) = prop /\ SourceTitle(k) = title}

RECURSIVE RowsAt(_, _, _)
\* The rows at the positions ks from position k on, in table order.
RowsAt(rows, k, ks) ==
    IF k > Len(rows) THEN <<>>
    ELSE (IF k \in ks THEN <<rows[k]>> ELSE <<>>) \o RowsAt(rows, k + 1, ks)

\* The first position of a title among the rows of the category.
FirstMember(prop, title) ==
    CHOOSE k \in Members(prop, title) : \A m \in Members(prop, title) : k <= m

\* C15: with no chart switched off, the charts of the selected category are
\* one group per distinct non-blank title among the category's rows, in order
\* of first appearance, each with exactly the rows of that category and
\* title.
C15_OneGroupPerTitle ==
    (rendered # <<>> /\ selectedProperty # <<>> /\ chartVisibilities = <<>>) =>
        LET prop == selectedProperty[1]
            charts == rendered[1].charts
            titles == {SourceTitle(k) : k \in {m \in 1..Len(LoadedData.rows) :
                                                SourceProperty(m) = prop}} \ {<<>>}
        IN  /\ {charts[i].title : i \in 1..Len(charts)} = titles
            /\ Len(charts) = Cardinality(titles)
            /\ \A i, j \in 1..Len(charts) :
                  i < j => FirstMember(prop, charts[i].title)
                              < FirstMember(prop, charts[j].title)
            /\ \A i \in 1..Len(charts) :
                  charts[i].rows = RowsAt(LoadedData.rows, 1, Members(prop, charts[i].title))

\* The category has an explicit unit-count field: a property-detail row whose
\* label names the unit count.
HasExplicitUnitCount(d, prop) ==
    \E k \in 1..Len(d.rows) :
        /\ IsDetailRow(d.rows[k], prop)
        /\ DetailOf(d.rows[k]) # <<>>
        /\ IsUnitCountLabel(ToLowerCase(DetailOf(d.rows[k])[1].label))

\* C17: when the unit map of the category has a canonical key with a numeric
\* value and the category has no explicit unit-count field, the reported unit
\* count is the sum of the numbers of the canonical keys, whether or not the
\* category has property-detail rows.
C17_UnitCountIsSumOfUnits ==
    (rendered # <<>> /\ selectedProperty # <<>>) =>
        LET unitMap == rendered[1].unitMap
            total == SumUnits(unitMap, SurfacedKeys(unitMap))
        IN  (total.anyNumeric /\ ~HasExplicitUnitCount(LoadedData, selectedProperty[1]))
                => rendered[1].details.unitCount = NumText(total.sum)

Unfinished(call) ==
    Len(call.requested) - Len(call.errors) - (IF call.pc = "returned" THEN 1 ELSE 0)

\* C19: within one fetch call no candidate request form is requested more
\* than once, and a candidate is requested only after every earlier attempt
\* of the call has finished in failure, so that at most one request of the
\* call is unfinished at any time.
C19_AttemptsSequentialAndDistinct ==
    \A c \in Callers :
        LET call == fetch[c]
            n == Len(call.requested)
        IN  /\ \A i, j \in 1..n :
                  i # j => /\ call.requested[i].key # call.requested[j].key
                           /\ call.requested[i].url # call.requested[j].url
            /\ \A i \in 1..(n - 1) :
                  /\ i <= Len(call.errors)
                  /\ call.errors[i] = ErrorEntry(call.requested[i].key)
            /\ Unfinished(call) \in {0, 1}
            /\ (Unfinished(call) = 1) <=> (call.pc \in {"get", "text"})

\* A call whose third candidate is in flight after two failures.
C19_Witness ==
    \E c \in Callers :
        /\ fetch[c].pc = "get"
        /\ Len(fetch[c].requested) = 3
        /\ Len(fetch[c].errors) = 2

(***************************************************************************)
(* SpecSameContent: the viewer's loadCSVFile and the pane's                *)
(* buildDynamicToggles have both called fetchCSVFromSharePoint for the     *)
(* file of the web part's properties, before either call has settled; the  *)
(* store holds one content, csvContent, for the file during both calls.    *)
(* The steps of the two calls interleave freely.                           *)
(***************************************************************************)

\* The locator both calls compute.
SharedLocator ==
    fetchServerRelativePath(webServerRel, ReportsProps(properties).libraryName,
                            properties.folderPath, properties.fileName)

InitSameContent ==
    /\ webServerRel \in WebRoots
    /\ properties \in [libraryName : {<<>>, <<"Docs">>},
                       folderPath : {<<"Reports">>, <<"Archive">>},
                       fileName : FileNames]
    /\ cache = <<>>
    /\ viewer = [ViewerInit(ReportsProps(properties)) EXCEPT !.loading = TRUE]
    /\ pane = [csv |-> <<>>, fromCache |-> FALSE]
    /\ fetch = [c \in Callers |->
                  IF c = "viewer"
                  THEN StartFetch(webServerRel, viewer.libraryName, viewer.folderPath,
                                  properties.fileName)
                  ELSE StartFetch(webServerRel, ReportsProps(properties).libraryName,
                                  properties.folderPath, properties.fileName)]
    /\ csvContent \in Bodies
    /\ csvData = <<>>
    /\ LocatorUnused /\ TokenUnused /\ LabelUnused /\ ReportUnused /\ ListUnused /\ CacheUnused

NextSameContent ==
    \/ \E c \in Callers, ok \in BOOLEAN : GetResolves(c, ok)
    \/ \E c \in Callers : GetRejects(c)
    \/ \E c \in Callers : DebugTextRead(c)
    \/ \E c \in Callers : ContentRead(c, csvContent)
    \/ \E c \in Callers : ContentReadFails(c)
    \/ LoadReturned
    \/ LoadFailed
    \/ PaneReturned
    \/ PaneFailed

SpecSameContent == InitSameContent /\ [][NextSameContent]_vars

(***************************************************************************)
(* Properties of two fetches of one file                                   *)
(***************************************************************************)

\* The caller's fetch has returned a table.
Completed(c) ==
    \/ fetch[c].pc = "returned"
    \/ c = "viewer" /\ viewer.data # <<>>
    \/ c = "pane" /\ pane.csv # <<>>

\* C20: two concurrent fetchCSVFromSharePoint calls for the same locator over
\* the same remote content may both complete and both write the cache; under
\* every interleaving of their steps the cache entry of the locator is never
\* wrong (while it exists it is the parse of the content) and never missing
\* (it exists once a call has returned), and no other entry differs from it.
C20_SameContentCachedUnderEveryInterleaving ==
    LET expected == TableOf(parseCSV(csvContent))
        entry == getCachedCSV(cache, SharedLocator)
    IN  /\ \A c \in Callers :
              fetch[c].pc # "idle" => fetch[c].serverRelativePath = SharedLocator
        /\ \A p \in DOMAIN cache : cache[p] = expected
        /\ (\E c \in Callers : Completed(c)) => entry = <<expected>>
        /\ \A c \in Callers :
              fetch[c].pc = "returned" => fetch[c].result = <<expected>>

\* Both calls have returned, one of them after a failed attempt, and the
\* entry of the locator is in the cache.
C20_Witness ==
    /\ \A c \in Callers : fetch[c].pc = "returned"
    /\ \E c \in Callers : fetch[c].errors # <<>>
    /\ getCachedCSV(cache, SharedLocator) # <<>>

(***************************************************************************)
(* listCSVFiles                                                            *)
(***************************************************************************)

\* The serverRelativePath of the folder that listCSVFiles computes.
listServerRelativePath(web, libraryName, folderPath) ==
    LET folderPath_ == IF folderPath # <<>> THEN <<"/">> \o folderPath ELSE <<>>
        raw == web \o <<"/">> \o libraryName \o folderPath_
        normalized == ReplaceSlashPairs(ReplaceBackslashes(raw))
    IN  IF StartsWithSlash(normalized) THEN normalized ELSE <<"/">> \o normalized

\* restUrl: the folder-enumeration request.
listRestUrl(serverRelativePath) ==
    <<"siteUrl", "/_api/web/GetFolderByServerRelativePath(decodedurl='">>
        \o encodeURIComponent(serverRelativePath) \o <<"')/Files?$select=Name">>

\* '.csv'
CsvSuffix == <<".", "c", "s", "v">>

\* Mutant of csvFilesOf: the suffix is compared without toLowerCase.
csvFilesOf_CaseSensitive(value) ==
    LET items == IF value = <<>> THEN <<>> ELSE value[1]
        kept == SelectSeq(items, LAMBDA item : item.Name # <<>> /\ EndsWith(item.Name, CsvSuffix))
    IN  [k \in 1..Len(kept) |-> kept[k].Name]

\* (data.value || []).filter(...).map(item => item.Name); value is the
\* value member of the response, or nothing when the response has none.
csvFilesOf(value) ==
    LET items == IF value = <<>> THEN <<>> ELSE value[1]
        kept == SelectSeq(items, LAMBDA item :
                    item.Name # <<>> /\ EndsWith(ToLowerCase(item.Name), CsvSuffix))
    IN  [k \in 1..Len(kept) |-> kept[k].Name]

\* No listing in progress.  ok holds the status of the response once there is
\* one, value what response.json() gave, requests the requests issued.
IdleListing ==
    [pc |-> "idle", libraryName |-> <<>>, folderPath |-> <<>>, requests |-> <<>>,
     ok |-> <<>>, value |-> <<>>, result |-> <<>>, message |-> <<>>]

(***************************************************************************)
(* SpecList: one listCSVFiles call over every answer of the store: a       *)
(* transport error, a failure status, a body that cannot be read, and      *)
(* every folder of up to MaxEntries entries.                               *)
(***************************************************************************)

MaxEntries == 2

\* The names the store may hold in a folder.
EntryNames ==
    {<<"a", ".", "c", "s", "v">>,
     <<"B", ".", "C", "S", "V">>,
     <<"c", ".", "C", "s", "v">>,
     <<"a", ".", "t", "x", "t">>,
     <<"c", "s", "v">>,
     <<".", "c", "s", "v", ".", "b", "a", "k">>,
     <<>>}

\* What response.json() may give: no value member, or the entries.
ListValues ==
    {<<>>} \cup {<<items>> : items \in SeqsUpTo([Name : EntryNames], MaxEntries)}

InitList ==
    /\ webServerRel \in WebRoots
    /\ properties = <<>> /\ cache = <<>> /\ fetch = <<>>
    /\ viewer = <<>> /\ pane = <<>>
    /\ listing = IdleListing
    /\ LocatorUnused /\ ParseUnused /\ TokenUnused /\ LabelUnused /\ ReportUnused /\ CacheUnused

\* listCSVFiles(libraryName, folderPath) up to its first await.
ListCSVFiles(libraryName, folderPath) ==
    /\ listing.pc = "idle"
    /\ listing' = [IdleListing EXCEPT
            !.pc = "get", !.libraryName = libraryName, !.folderPath = folderPath,
            !.requests = <<listRestUrl(listServerRelativePath(webServerRel, libraryName,
                                                              folderPath))>>]
    /\ UNCHANGED <<serviceVars, locatorVars, parseVars, tokenVars, labelVars, reportVars, cacheVars>>

\* spHttpClient.get resolves: a failure status throws, and the outer catch
\* wraps the message.
ListGetResolves(ok) ==
    /\ listing.pc = "get"
    /\ listing' = IF ok
                  THEN [listing EXCEPT !.pc = "json", !.ok = <<TRUE>>]
                  ELSE [listing EXCEPT !.pc = "threw", !.ok = <<FALSE>>,
                            !.message = <<"Failed to list CSV files: ",
                                          "Failed to list files: HTTP ", "status">>]
    /\ UNCHANGED <<serviceVars, locatorVars, parseVars, tokenVars, labelVars, reportVars, cacheVars>>

\* spHttpClient.get rejects: the outer catch wraps the error.
ListGetRejects ==
    /\ listing.pc = "get"
    /\ listing' = [listing EXCEPT !.pc = "threw",
                       !.message = <<"Failed to list CSV files: ", "diagnostic">>]
    /\ UNCHANGED <<serviceVars, locatorVars, parseVars, tokenVars, labelVars, reportVars, cacheVars>>

\* response.json() resolves: the names are filtered and returned.
ListJsonRead(value) ==
    /\ listing.pc = "json"
    /\ listing' = [listing EXCEPT !.pc = "returned", !.value = value,
                                  !.result = <<csvFilesOf(value)>>]
    /\ UNCHANGED <<serviceVars, locatorVars, parseVars, tokenVars, labelVars, reportVars, cacheVars>>

\* response.json() rejects: the outer catch wraps the error.
ListJsonRejects ==
    /\ listing.pc = "json"
    /\ listing' = [listing EXCEPT !.pc = "threw",
                       !.message = <<"Failed to list CSV files: ", "diagnostic">>]
    /\ UNCHANGED <<serviceVars, locatorVars, parseVars, tokenVars, labelVars, reportVars, cacheVars>>

NextList ==
    \/ \E lib \in {<<"Docs">>, <<"Shared Documents">>}, folder \in {<<>>, <<"Reports">>} :
            ListCSVFiles(lib, folder)
    \/ \E ok \in BOOLEAN : ListGetResolves(ok)
    \/ ListGetRejects
    \/ \E value \in ListValues : ListJsonRead(value)
    \/ ListJsonRejects

SpecList == InitList /\ [][NextList]_vars

(***************************************************************************)
(* Properties of listCSVFiles                                              *)
(***************************************************************************)

\* The entries the store returned to the listing.
ListedItems == IF listing.value = <<>> THEN <<>> ELSE listing.value[1]

\* The positions of the returned entries whose lowercase name ends in '.csv'.
CsvPositions ==
    {i \in 1..Len(ListedItems) :
        LET name == ToLowerCase(ListedItems[i].Name)
        IN  /\ Len(name) >= 4
            /\ SubSeq(name, Len(name) - 3, Len(name)) = CsvSuffix}

\* C21: listCSVFiles issues exactly one request, to the folder-enumeration
\* form; it returns, in the order the store returned them, exactly the entry
\* names whose lowercase form ends in '.csv'; a folder without such an entry
\* gives the empty list and no error; a non-success status makes it fail.
C21_ListingFiltersBySuffixInOrder ==
    /\ listing.pc = "idle" => listing.requests = <<>>
    /\ listing.pc # "idle" =>
          listing.requests =
              <<listRestUrl(listServerRelativePath(webServerRel, listing.libraryName,
                                                   listing.folderPath))>>
    /\ listing.pc = "returned" =>
          LET names == listing.result[1]
          IN  /\ listing.ok = <<TRUE>>
              /\ Len(names) = Cardinality(CsvPositions)
              /\ \A k \in 1..Len(names) :
                    \E i \in CsvPositions :
                        /\ Cardinality({j \in CsvPositions : j < i}) = k - 1
                        /\ names[k] = ListedItems[i].Name
    /\ listing.ok = <<FALSE>> => listing.pc = "threw" /\ listing.result = <<>>
    /\ listing.pc = "threw" => listing.result = <<>> /\ listing.message # <<>>

\* A listing that returned one of two entries, matched in upper case.
C21_Witness ==
    /\ listing.pc = "returned"
    /\ Len(ListedItems) = 2
    /\ ListedItems[2].Name = <<"B", ".", "C", "S", "V">>
    /\ listing.result = <<<<ListedItems[2].Name>>>>

(***************************************************************************)
(* Properties of the header resolution of parseCSV                         *)
(***************************************************************************)

\* The index map parseCSV builds for the parsed file.
BuiltIndexMap == ResolveHeaders(FirstFields).indexMap

\* C22 as stated: the index map has exactly as many entries as the header
\* list parseCSV returns, with and without a header line.
C22_IndexMapLengthIsHeaderCount ==
    Parsed => Len(BuiltIndexMap) = Len(csvData[1].headers)

\* C22 amended: the index map always has one entry per expected header (six);
\* the returned header list is never longer, has six names whenever a
\* canonical name matched, and in the header-less branch has six names only
\* for a first line of six or more fields; the entries at the positions of
\* the returned headers are the ones the row loop reads, and the entries past
\* them are absent (-1).
C22_IndexMapHasOneEntryPerExpectedHeader ==
    Parsed =>
        LET n == Len(csvData[1].headers)
        IN  /\ Len(BuiltIndexMap) = Len(expectedHeaders)
            /\ n <= Len(BuiltIndexMap)
            /\ ~HeaderLess => n = Len(BuiltIndexMap)
            /\ HeaderLess => (n = Len(BuiltIndexMap) <=> Len(FirstFields) >= 6)
            /\ \A j \in 1..Len(BuiltIndexMap) :
                  /\ BuiltIndexMap[j] \in -1..(Len(FirstFields) - 1)
                  /\ j > n => BuiltIndexMap[j] = -1

\* A header-less file of two columns: two headers, six map entries.
C22_Witness ==
    /\ Parsed /\ HeaderLess
    /\ csvData[1].headers = <<"Property", "Title">>
    /\ BuiltIndexMap = <<0, 1, -1, -1, -1, -1>>
    /\ Len(csvData[1].rows) >= 1

\* Field k (1-based) of the first line is the canonical name h, read
\* case-insensitively.
NamesHeader(k, h) == ToLowerCase(Trim(FirstFields[k])) = ToLowerCase(<<h>>)

\* C23: when at least one field of the first line equals a canonical name
\* case-insensitively, parseCSV returns the full expectedHeaders list, maps
\* each canonical name to the first source column of that name or to absent
\* (-1), and reads the first line as a header: the rows are those of the
\* later lines, each cell read from the mapped column of its line.
C23_OneMatchedNameMakesHeaderLine ==
    (Parsed /\ \E k \in 1..Len(FirstFields), j \in 1..Len(expectedHeaders) :
                    NamesHeader(k, expectedHeaders[j])) =>
        LET d == csvData[1]
            kept == KeptLines(ContentLines(csvContent), 1)
        IN  /\ d.headers = expectedHeaders
            /\ Len(BuiltIndexMap) = Len(expectedHeaders)
            /\ \A j \in 1..Len(expectedHeaders) :
                  LET matches == {k \in 1..Len(FirstFields) :
                                      NamesHeader(k, expectedHeaders[j])}
                  IN  IF matches = {} THEN BuiltIndexMap[j] = -1
                      ELSE /\ BuiltIndexMap[j] + 1 \in matches
                           /\ \A k \in matches : BuiltIndexMap[j] + 1 <= k
            /\ ResolveHeaders(FirstFields).dataStartIndex = 1
            /\ Len(d.rows) = Len(kept)
            /\ \A k \in 1..Len(kept) : \A j \in 1..Len(expectedHeaders) :
                  d.rows[k][expectedHeaders[j]] =
                      Coerce(IF BuiltIndexMap[j] >= 0 /\ BuiltIndexMap[j] < Len(kept[k])
                             THEN kept[k][BuiltIndexMap[j] + 1] ELSE <<>>)

\* A first line whose only canonical name is a data value 'Title', twice.
C23_Witness ==
    /\ Parsed
    /\ FirstFields = <<<<"P1">>, <<"Title">>, <<"x">>, <<"Title">>>>
    /\ csvData[1].headers = expectedHeaders
    /\ BuiltIndexMap = <<-1, 1, -1, -1, -1, -1>>
    /\ Len(csvData[1].rows) = 2

(***************************************************************************)
(* Properties of parseCSVLine: field count and unbalanced quotes           *)
(***************************************************************************)

\* The number of quote characters of a text.
QuoteCount(s) == Cardinality({i \in 1..Len(s) : s[i] = "\""})

\* The commas of a text that lie outside quotes: those with an even number
\* of quote characters before them.
OutsideCommas(s) ==
    {i \in 1..Len(s) : s[i] = "," /\ QuoteCount(SubSeq(s, 1, i - 1)) % 2 = 0}

\* C24: for every line the tokenizer returns 1 + (number of commas outside
\* quotes) fields, so never an empty list: the empty line gives one empty
\* field, and a comma outside quotes at the end of the line gives a trailing
\* empty field.
C24_FieldCountIsOnePlusOutsideCommas ==
    tokenized # <<>> =>
        LET l == rawLine[1]
            fields == tokenized[1]
        IN  /\ Len(fields) = 1 + Cardinality(OutsideCommas(l))
            /\ Len(fields) >= 1
            /\ l = <<>> => fields = <<<<>>>>
            /\ (l # <<>> /\ Len(l) \in OutsideCommas(l)) => fields[Len(fields)] = <<>>

\* A line with a comma inside quotes and a trailing comma: two fields.
C24_Witness ==
    /\ tokenized # <<>>
    /\ rawLine[1] = <<"\"", "a", ",", "a", "\"", ",">>
    /\ tokenized[1] = <<<<"a", ",", "a">>, <<>>>>

\* The splits of the line into a text with balanced quotes, an opening quote
\* and a rest without quotes: the quote at position p is never closed.
UnclosedQuoteAt(l, p) ==
    /\ l[p] = "\""
    /\ QuoteCount(SubSeq(l, 1, p - 1)) % 2 = 0
    /\ QuoteCount(SubSeq(l, p + 1, Len(l))) = 0

\* C25: the tokenizer is total: every line, also one with an unbalanced
\* quote, gives a list of fields; after an opening quote that is never closed
\* every remaining character, commas included, belongs to the open field:
\* no comma after the quote separates, and the last field ends with the rest
\* of the line (up to the trimming of the field).
C25_TotalAndOpenQuoteTakesRest ==
    /\ tokenized = <<>> => ENABLED ParseCSVLine
    /\ tokenized # <<>> =>
        LET l == rawLine[1]
            fields == tokenized[1]
        IN  /\ Len(fields) >= 1
            /\ \A k \in 1..Len(fields) : \A i \in 1..Len(fields[k]) :
                  fields[k][i] \in Range(l)
            /\ \A p \in 1..Len(l) :
                  UnclosedQuoteAt(l, p) =>
                      LET rest == SubSeq(l, p + 1, Len(l))
                      IN  /\ Len(fields) = 1 + Cardinality(OutsideCommas(SubSeq(l, 1, p - 1)))
                          /\ EndsWith(fields[Len(fields)], Trim(rest))

\* A line whose second field opens a quote that is never closed.
C25_Witness ==
    /\ tokenized # <<>>
    /\ rawLine[1] = <<"a", ",", "\"", "a", ",", "a">>
    /\ tokenized[1] = <<<<"a">>, <<"a", ",", "a">>>>

(***************************************************************************)
(* Properties of the unit breakdown                                        *)
(***************************************************************************)

\* The display labels of the canonical keys, in display order.
CanonicalLabels ==
    <<<<"S", "t", "u", "d", "i", "o">>, <<"1", "B", "R">>, <<"2", "B", "R">>, <<"3", "B", "R">>>>

\* rows is a breakdown of unitMap as the claim has it: every row shows a
\* canonical key that has a value in the map, with that value; the rows are
\* in canonical order, so that no key is shown twice; and every canonical
\* key with a value is shown.
IsCanonicalBreakdown(rows, unitMap) ==
    LET pos(i) == CHOOSE c \in 1..Len(canonicalOrder) : CanonicalLabels[c] = rows[i].label
    IN  /\ \A i \in 1..Len(rows) :
              /\ rows[i].label \in Range(CanonicalLabels)
              /\ canonicalOrder[pos(i)] \in DOMAIN unitMap
              /\ rows[i].value = unitMap[canonicalOrder[pos(i)]]
              /\ rows[i].value # <<>>
        /\ \A i, j \in 1..Len(rows) : i < j => pos(i) < pos(j)
        /\ \A c \in 1..Len(canonicalOrder) :
              (canonicalOrder[c] \in DOMAIN unitMap /\ unitMap[canonicalOrder[c]] # <<>>)
                  => \E i \in 1..Len(rows) : rows[i].label = CanonicalLabels[c]

\* The `label: value` texts of rows.
RowTexts(rows) == [i \in 1..Len(rows) |-> rows[i].label \o <<":", " ">> \o rows[i].value]

\* C26: whatever keys the unit map of the category holds, the card, the print
\* window, the PDF and the structured unitTypes string list only the
\* canonical keys that have a value, each once, in the order studio, 1br,
\* 2br, 3br; no other key of the map is shown.
C26_OnlyCanonicalUnitsInOrder ==
    /\ (rendered # <<>> /\ selectedProperty # <<>>) =>
          LET unitMap == getUnitTypeMap(LoadedData, selectedProperty[1])
              card == rendered[1].unitRows
              details == rendered[1].details
          IN  /\ IsCanonicalBreakdown(card, unitMap)
              /\ (card # <<>> /\ getPropertyDetails(LoadedData, selectedProperty[1]) # <<>>)
                    => details.unitTypes = Join(RowTexts(card), <<";", " ">>)
              /\ (card = <<>> /\ details.unitTypes # <<>>)
                    => \E k \in 1..Len(getPropertyDetails(LoadedData, selectedProperty[1])) :
                          getPropertyDetails(LoadedData, selectedProperty[1])[k].value
                              = details.unitTypes
    /\ printed # <<>> =>
          LET unitMap == getUnitTypeMap(LoadedData, printed[1].prop)
          IN  \/ /\ printed[1].output = "print"
                 /\ IsCanonicalBreakdown(printed[1].unitRows, unitMap)
              \/ /\ printed[1].output = "pdf"
                 /\ \E rows \in SeqsUpTo([label : Range(CanonicalLabels),
                                          value : {unitMap[k] : k \in DOMAIN unitMap}],
                                         Len(printed[1].unitLines)) :
                        /\ RowTexts(rows) = printed[1].unitLines
                        /\ IsCanonicalBreakdown(rows, unitMap)

\* The card of a category whose map holds 4br, loft and name next to 2br and
\* studio, written in that order in the file: Studio, then 2BR.
C26_Witness ==
    /\ rendered # <<>> /\ csvContent = UnitOrderContent
    /\ DOMAIN rendered[1].unitMap
          = {<<"n", "a", "m", "e">>, <<"4", "b", "r">>, <<"2", "b", "r">>,
             <<"l", "o", "f", "t">>, <<"s", "t", "u", "d", "i", "o">>}
    /\ rendered[1].unitRows
          = <<[label |-> <<"S", "t", "u", "d", "i", "o">>, value |-> <<"1", "0">>],
              [label |-> <<"2", "B", "R">>, value |-> <<"1", "5">>]>>
    /\ printed # <<>> /\ printed[1].output = "pdf"
    /\ printed[1].unitLines = RowTexts(rendered[1].unitRows)

(***************************************************************************)
(* SpecOverlap: the viewer alone, with up to two loadCSVFile calls at a    *)
(* time: handleFileChange starts a load whenever the user picks a file,    *)
(* also while an earlier load awaits its fetch.  Every file has one        *)
(* content; the requests of the two loads settle in any order.             *)
(***************************************************************************)

\* The loadCSVFile calls that may be awaiting their fetch at one time.
Loads == {"earlier", "later"}

\* The content the store holds for a file.
FileContent(fileName) ==
    IF fileName = <<"a.csv">>
    THEN Join(<<LineOf(<<<<"Property">>, <<"Title">>, <<"Value">>>>),
                LineOf(<<<<"P1">>, <<"T1">>, <<"4">>>>)>>, <<"\n">>)
    ELSE LineOf(<<<<"P2">>, <<"T2">>, <<"x">>, <<"7">>, <<"n">>>>)

InitOverlap ==
    /\ webServerRel \in WebRoots
    /\ properties \in [libraryName : {<<>>, <<"Docs">>},
                       folderPath : {<<"Reports">>},
                       fileName : {<<>>}]
    /\ cache = <<>>
    /\ fetch = [l \in Loads |-> IdleCall]
    /\ viewer = ViewerInit(ReportsProps(properties))
    /\ pane = [csv |-> <<>>, fromCache |-> FALSE]
    /\ LocatorUnused /\ ParseUnused /\ TokenUnused /\ LabelUnused /\ ReportUnused /\ ListUnused /\ CacheUnused

\* handleFileChange with an option of the file dropdown: loadCSVFile(option.key)
\* runs up to its await, whether or not another load is awaiting its fetch.
HandleFileChange(l, fileName) ==
    /\ fetch[l].pc = "idle"
    /\ viewer' = [viewer EXCEPT !.loading = TRUE, !.error = <<>>,
                                !.selectedFile = fileName]
    /\ fetch' = [fetch EXCEPT ![l] =
                    StartFetch(webServerRel, viewer.libraryName, viewer.folderPath, fileName)]
    /\ UNCHANGED <<webServerRel, properties, cache, pane, locatorVars, parseVars, tokenVars, labelVars, reportVars, listVars, cacheVars>>

\* A loadCSVFile call after its fetch has returned: the table is cached and
\* becomes state.data, whatever state.selectedFile is by then.
LoadReturnedOf(l) ==
    /\ fetch[l].pc = "returned"
    /\ cache' = setCachedCSV(cache,
                    buildServerRelativePath(webServerRel, viewer.libraryName,
                                            viewer.folderPath, fetch[l].fileName),
                    fetch[l].result[1])
    /\ viewer' = [viewer EXCEPT !.data = fetch[l].result, !.loading = FALSE]
    /\ fetch' = [fetch EXCEPT ![l] = IdleCall]
    /\ UNCHANGED <<webServerRel, properties, pane, locatorVars, parseVars, tokenVars, labelVars, reportVars, listVars, cacheVars>>

\* A loadCSVFile call after its fetch has thrown: the catch sets the error
\* and clears the data.
LoadFailedOf(l) ==
    /\ fetch[l].pc = "threw"
    /\ viewer' = [viewer EXCEPT !.error = <<fetch[l].message>>,
                                !.loading = FALSE, !.data = <<>>]
    /\ fetch' = [fetch EXCEPT ![l] = IdleCall]
    /\ UNCHANGED <<webServerRel, properties, cache, pane, locatorVars, parseVars, tokenVars, labelVars, reportVars, listVars, cacheVars>>

NextOverlap ==
    \/ \E l \in Loads, f \in FileNames : HandleFileChange(l, f)
    \/ \E l \in Loads, ok \in BOOLEAN : GetResolves(l, ok)
    \/ \E l \in Loads : GetRejects(l)
    \/ \E l \in Loads : DebugTextRead(l)
    \/ \E l \in Loads : ContentRead(l, FileContent(fetch[l].fileName))
    \/ \E l \in Loads : ContentReadFails(l)
    \/ \E l \in Loads : LoadReturnedOf(l)
    \/ \E l \in Loads : LoadFailedOf(l)

SpecOverlap == InitOverlap /\ [][NextOverlap]_vars

(***************************************************************************)
(* Properties of overlapping loads                                         *)
(***************************************************************************)

\* C27: under every interleaving of overlapping loadCSVFile calls, once no
\* load is in flight and no load has failed since the last pick, the table in
\* state.data is the table of the file named by state.selectedFile.
C27_DataIsSelectedFile ==
    (/\ \A l \in Loads : fetch[l].pc = "idle"
     /\ viewer.data # <<>>
     /\ viewer.error = <<>>)
        => viewer.data = <<TableOf(parseCSV(FileContent(viewer.selectedFile)))>>

(***************************************************************************)
(* fetchCSVFromLink: the file behind a sharing link.  A link is the origin *)
(* of its URL followed by the characters of its path; a text that does not *)
(* start with an origin is not a URL.                                      *)
(***************************************************************************)

Origin == "https://tenant.sharepoint.com"

\* decodeURIComponent on the characters of the model.
DecodeChar(c) ==
    CASE c = "%2F" -> "/"
      [] c = "%5C" -> "\\"
      [] c = "%20" -> " "
      [] c = "Shared%20Documents" -> "Shared Documents"
      [] OTHER -> c

decodeURIComponent(s) == [i \in 1..Len(s) |-> DecodeChar(s[i])]

\* indexOf(sub), counted from 1; 0 when sub does not occur (-1 in the code).
IndexOf(s, sub) ==
    IF Contains(s, sub)
    THEN CHOOSE i \in 1..(Len(s) - Len(sub) + 1) :
            /\ SubSeq(s, i, i + Len(sub) - 1) = sub
            /\ \A j \in 1..(i - 1) : SubSeq(s, j, j + Len(sub) - 1) # sub
    ELSE 0

\* startsWith(prefix)
StartsWith(s, prefix) ==
    Len(s) >= Len(prefix) /\ SubSeq(s, 1, Len(prefix)) = prefix

\* extractServerRelativePathFromLink: the path from its /sites/, /teams/ or
\* /Shared%20Documents segment on, decoded, with a leading slash, prefixed
\* with the web's root when it does not hold it.  new URL throws on a text
\* that is not a URL, and the catch returns the link as it is.
extractServerRelativePathFromLink(web, link) ==
    IF link = <<>> \/ link[1] # Origin THEN link
    ELSE LET rawPath == Tail(link)
             sitesIdx == IndexOf(rawPath, <<"/", "sites", "/">>)
             teamsIdx == IndexOf(rawPath, <<"/", "teams", "/">>)
             sdIdx == IndexOf(rawPath, <<"/", "Shared%20Documents">>)
             startIdx == IF sitesIdx # 0 THEN sitesIdx
                         ELSE IF teamsIdx # 0 THEN teamsIdx
                         ELSE sdIdx
             cut == IF startIdx # 0 THEN SubSeq(rawPath, startIdx, Len(rawPath)) ELSE rawPath
             decoded == decodeURIComponent(cut)
             serverRelative == IF StartsWithSlash(decoded) THEN decoded ELSE <<"/">> \o decoded
             webRoot == IF EndsWith(web, <<"/">>) THEN SubSeq(web, 1, Len(web) - 1) ELSE web
         IN  IF /\ web # <<>> /\ web # <<"/">>
                /\ ~StartsWith(serverRelative, web)
                /\ ~Contains(serverRelative, web)
             THEN webRoot \o serverRelative
             ELSE serverRelative

\* The attempts array of fetchCSVFromLink: the alias forms come first.
LinkAttempts(serverRelativePath) ==
    <<[key |-> "alias-encoded",
       url |-> <<"siteUrl", "/_api/web/GetFileByServerRelativeUrl(@v)/$value?@v='">>
                 \o encodeURIComponent(serverRelativePath) \o <<"'">>],
      [key |-> "alias-raw",
       url |-> <<"siteUrl", "/_api/web/GetFileByServerRelativeUrl(@v)/$value?@v='">>
                 \o serverRelativePath \o <<"'">>],
      [key |-> "path-encoded",
       url |-> <<"siteUrl", "/_api/web/GetFileByServerRelativePath(decodedurl='">>
                 \o encodeURIComponent(serverRelativePath) \o <<"')/$value">>],
      [key |-> "path-raw",
       url |-> <<"siteUrl", "/_api/web/GetFileByServerRelativePath(decodedurl='">>
                 \o serverRelativePath \o <<"')/$value">>],
      [key |-> "download-sourceurl",
       url |-> <<"siteUrl", "/_layouts/15/download.aspx?SourceUrl=">>
                 \o encodeURIComponent(serverRelativePath)]>>

\* No fetchCSVFromLink call in progress.
IdleLinkCall ==
    [pc |-> "idle", link |-> <<>>, serverRelativePath |-> <<>>, requested |-> <<>>,
     ok |-> FALSE, errors |-> <<>>, result |-> <<>>, message |-> <<>>]

\* The catch of the loop body of fetchCSVFromLink, and its failure-status
\* branch: the entry is pushed and the loop goes on, or past the last
\* attempt the call throws with the joined entries.
LinkFailAttempt(call) ==
    LET attempts == LinkAttempts(call.serverRelativePath)
        i == Len(call.requested)
        errors == Append(call.errors, ErrorEntry(call.requested[i].key))
    IN  IF i < Len(attempts)
        THEN [call EXCEPT !.pc = "get", !.errors = errors, !.ok = FALSE,
                          !.requested = Append(call.requested, attempts[i + 1])]
        ELSE [call EXCEPT !.pc = "threw", !.errors = errors, !.ok = FALSE,
                          !.message = <<"Failed to fetch CSV from link. Attempts:\n">>
                                        \o Join(errors, <<"\n">>)]

(***************************************************************************)
(* SpecCache: the operations of CSVDataService on one page, in any order   *)
(* and interleaving: one fetchCSVFromSharePoint call, one fetchCSVFromLink *)
(* call and one listCSVFiles call at a time, and direct setCachedCSV and   *)
(* getCachedCSV calls.  A settled call is taken by its caller before the   *)
(* next one of its kind starts.                                            *)
(***************************************************************************)

\* The link handed to fetchCSVFromLink: a sharing link.
Links ==
    {<<Origin, "/", ":x:", "/", "r", "/", "sites", "/", "hr", "/",
       "Shared%20Documents", "/", "a.csv">>}

\* The keys handed to setCachedCSV and getCachedCSV directly: none, the
\* locator of the fetched file, and another one.
CacheKeys ==
    {<<>>,
     fetchServerRelativePath(<<"/", "sites", "/", "hr">>, <<"Docs">>, <<"Reports">>, <<"a.csv">>),
     <<"/", "k">>}

\* The table handed to setCachedCSV directly.
CacheTables == {TableOf(parseCSV(FileContent(<<"b.csv">>)))}

\* The texts the store returns on a success status: a file, or nothing.
CacheBodies == {FileContent(<<"a.csv">>), <<>>}

InitCache ==
    /\ webServerRel \in WebRoots
    /\ properties = <<>> /\ viewer = <<>> /\ pane = <<>>
    /\ cache = <<>>
    /\ fetch = [c \in {"service", "link"} |->
                    IF c = "service" THEN IdleCall ELSE IdleLinkCall]
    /\ listing = IdleListing
    /\ cacheCall = <<>>
    /\ LocatorUnused /\ ParseUnused /\ TokenUnused /\ LabelUnused /\ ReportUnused

\* fetchCSVFromSharePoint(libraryName, folderPath, fileName) up to its first
\* await.
FetchCSVFromSharePoint(libraryName, folderPath, fileName) ==
    /\ fetch["service"].pc = "idle"
    /\ fetch' = [fetch EXCEPT !["service"] =
                    StartFetch(webServerRel, libraryName, folderPath, fileName)]
    /\ UNCHANGED <<webServerRel, properties, cache, viewer, pane, locatorVars, parseVars, tokenVars, labelVars, reportVars, listVars, cacheVars>>

\* The caller takes the table or the error of a settled
\* fetchCSVFromSharePoint or fetchCSVFromLink call.
CallSettled(c) ==
    /\ fetch[c].pc \in {"returned", "threw"}
    /\ fetch' = [fetch EXCEPT ![c] = IF c = "service" THEN IdleCall ELSE IdleLinkCall]
    /\ UNCHANGED <<webServerRel, properties, cache, viewer, pane, locatorVars, parseVars, tokenVars, labelVars, reportVars, listVars, cacheVars>>

\* fetchCSVFromLink(link) up to its first await.
FetchCSVFromLink(link) ==
    /\ fetch["link"].pc = "idle"
    /\ LET path == extractServerRelativePathFromLink(webServerRel, link)
       IN  fetch' = [fetch EXCEPT !["link"] =
                [IdleLinkCall EXCEPT !.pc = "get", !.link = link,
                                     !.serverRelativePath = path,
                                     !.requested = <<LinkAttempts(path)[1]>>]]
    /\ UNCHANGED <<webServerRel, properties, cache, viewer, pane, locatorVars, parseVars, tokenVars, labelVars, reportVars, listVars, cacheVars>>

\* spHttpClient.get of fetchCSVFromLink resolves.
LinkGetResolves(ok) ==
    /\ fetch["link"].pc = "get"
    /\ fetch' = [fetch EXCEPT !["link"] = [@ EXCEPT !.pc = "text", !.ok = ok]]
    /\ UNCHANGED <<webServerRel, properties, cache, viewer, pane, locatorVars, parseVars, tokenVars, labelVars, reportVars, listVars, cacheVars>>

\* spHttpClient.get of fetchCSVFromLink rejects.
LinkGetRejects ==
    /\ fetch["link"].pc = "get"
    /\ fetch' = [fetch EXCEPT !["link"] = LinkFailAttempt(@)]
    /\ UNCHANGED <<webServerRel, properties, cache, viewer, pane, locatorVars, parseVars, tokenVars, labelVars, reportVars, listVars, cacheVars>>

\* response.text() settles on a failure status.
LinkDebugTextRead ==
    /\ fetch["link"].pc = "text" /\ ~fetch["link"].ok
    /\ fetch' = [fetch EXCEPT !["link"] = LinkFailAttempt(@)]
    /\ UNCHANGED <<webServerRel, properties, cache, viewer, pane, locatorVars, parseVars, tokenVars, labelVars, reportVars, listVars, cacheVars>>

\* Mutant of LinkContentRead: the table is cached under the link's path as
\* fetchCSVFromSharePoint does.
LinkContentRead_Caches(content) ==
    /\ fetch["link"].pc = "text" /\ fetch["link"].ok
    /\ LET parsed == parseCSV(content)
       IN  IF parsed.threw
           THEN /\ fetch' = [fetch EXCEPT !["link"] = LinkFailAttempt(@)]
                /\ UNCHANGED cache
           ELSE /\ fetch' = [fetch EXCEPT !["link"] =
                        [@ EXCEPT !.pc = "returned", !.result = <<TableOf(parsed)>>]]
                /\ cache' = setCachedCSV(cache, fetch["link"].serverRelativePath, TableOf(parsed))
    /\ UNCHANGED <<webServerRel, properties, viewer, pane, locatorVars, parseVars, tokenVars, labelVars, reportVars, listVars, cacheVars>>

\* response.text() resolves on a success status: the content is parsed and
\* returned; a parse error is rethrown into the catch of the loop body.
LinkContentRead(content) ==
    /\ fetch["link"].pc = "text" /\ fetch["link"].ok
    /\ LET parsed == parseCSV(content)
       IN  IF parsed.threw
           THEN /\ fetch' = [fetch EXCEPT !["link"] = LinkFailAttempt(@)]
                /\ UNCHANGED cache
           ELSE /\ fetch' = [fetch EXCEPT !["link"] =
                        [@ EXCEPT !.pc = "returned", !.result = <<TableOf(parsed)>>]]
                /\ UNCHANGED cache
    /\ UNCHANGED <<webServerRel, properties, viewer, pane, locatorVars, parseVars, tokenVars, labelVars, reportVars, listVars, cacheVars>>

\* response.text() rejects on a success status.
LinkContentReadFails ==
    /\ fetch["link"].pc = "text" /\ fetch["link"].ok
    /\ fetch' = [fetch EXCEPT !["link"] = LinkFailAttempt(@)]
    /\ UNCHANGED <<webServerRel, properties, cache, viewer, pane, locatorVars, parseVars, tokenVars, labelVars, reportVars, listVars, cacheVars>>

\* The caller takes the names or the error of a settled listCSVFiles call.
ListSettled ==
    /\ listing.pc \in {"returned", "threw"}
    /\ listing' = IdleListing
    /\ UNCHANGED <<serviceVars, locatorVars, parseVars, tokenVars, labelVars, reportVars, cacheVars>>

\* A direct call setCachedCSV(serverRelativePath, data).
SetCachedCSV(serverRelativePath, data) ==
    /\ cache' = setCachedCSV(cache, serverRelativePath, data)
    /\ cacheCall' = <<[op |-> "set", key |-> serverRelativePath]>>
    /\ UNCHANGED <<webServerRel, properties, fetch, viewer, pane, locatorVars, parseVars, tokenVars, labelVars, reportVars, listVars>>

\* A direct call getCachedCSV(serverRelativePath): it reads the cache.
GetCachedCSV(serverRelativePath) ==
    /\ cacheCall' = <<[op |-> "get", key |-> serverRelativePath]>>
    /\ UNCHANGED <<serviceVars, locatorVars, parseVars, tokenVars, labelVars, reportVars, listVars>>

NextCache ==
    \/ FetchCSVFromSharePoint(<<"Docs">>, <<"Reports">>, <<"a.csv">>)
    \/ \E ok \in BOOLEAN : GetResolves("service", ok)
    \/ GetRejects("service")
    \/ DebugTextRead("service")
    \/ \E content \in CacheBodies : ContentRead("service", content)
    \/ ContentReadFails("service")
    \/ \E c \in {"service", "link"} : CallSettled(c)
    \/ \E link \in Links : FetchCSVFromLink(link)
    \/ \E ok \in BOOLEAN : LinkGetResolves(ok)
    \/ LinkGetRejects
    \/ LinkDebugTextRead
    \/ \E content \in CacheBodies : LinkContentRead(content)
    \/ LinkContentReadFails
    \/ ListCSVFiles(<<"Docs">>, <<"Reports">>)
    \/ \E ok \in BOOLEAN : ListGetResolves(ok)
    \/ ListGetRejects
    \/ ListJsonRead(<<<<[Name |-> <<"a", ".", "c", "s", "v">>]>>>>)
    \/ ListJsonRejects
    \/ ListSettled
    \/ \E k \in CacheKeys, data \in CacheTables : SetCachedCSV(k, data)
    \/ \E k \in CacheKeys : GetCachedCSV(k)

SpecCache == InitCache /\ [][NextCache]_vars

(***************************************************************************)
(* Properties of the cache under every operation                           *)
(***************************************************************************)

\* This step is the successful end of a fetchCSVFromSharePoint call.
FetchSucceeds ==
    /\ fetch["service"].pc = "text" /\ fetch["service"].ok
    /\ fetch'["service"].pc = "returned"

\* This step is a direct setCachedCSV call with a non-empty key.
SetsWithKey ==
    /\ fetch' = fetch /\ listing' = listing
    /\ cacheCall' # <<>> /\ cacheCall'[1].op = "set" /\ cacheCall'[1].key # <<>>

\* C28: the cache changes only in a step that is the successful end of a
\* fetchCSVFromSharePoint call or a setCachedCSV call with a non-empty key
\* (so a failed attempt, an exhausted fetch, every step of fetchCSVFromLink
\* and of listCSVFiles, getCachedCSV and setCachedCSV with an empty key
\* leave every entry as it is), and no step removes an entry: a key for
\* which getCachedCSV returns a table has one after the step too.
C28_CacheChangesOnlyByFetchOrSet ==
    [][/\ cache' # cache => (FetchSucceeds \/ SetsWithKey)
       /\ \A k \in CacheKeys \cup DOMAIN cache :
            getCachedCSV(cache, k) # <<>> => getCachedCSV(cache', k) # <<>>]_vars

\* Both keys are cached and, with them in place, a fetch has exhausted its
\* candidates, a link fetch and a listing have returned, and the last direct
\* call was a setCachedCSV with the empty key.
C28_Witness ==
    /\ \A k \in CacheKeys \ {<<>>} : getCachedCSV(cache, k) # <<>>
    /\ fetch["service"].pc = "threw"
    /\ fetch["link"].pc = "returned"
    /\ listing.pc = "returned"
    /\ cacheCall # <<>> /\ cacheCall[1].op = "set" /\ cacheCall[1].key = <<>>

(***************************************************************************)
(* SpecReload: the viewer over any sequence of successful file loads and   *)
(* property choices.  Each load hands loadCSVFile the table of a file of   *)
(* up to MaxReloadRows rows.                                               *)
(***************************************************************************)

MaxReloadRows == 2

ReloadLines ==
    {<<"P", "1", ",", "X", ",", "a", ",", "1", ",">>,
     <<"P", "2", ",", "X", ",", "a", ",", "5", ",">>,
     <<"p", "1", ",", "Y", ",", "e", ",", "6", ",">>,
     <<" ", "P", "3", ",", "X", ",", "b", ",", "2", ",">>,
     <<",", "X", ",", "c", ",", "3", ",">>}

ReloadContents == {ReportFile(ls) : ls \in SeqsUpTo(ReloadLines, MaxReloadRows)}

InitReload ==
    /\ csvContent = <<>>
    /\ csvData = <<>>
    /\ selectedProperty = <<>>
    /\ perTitleVisibility = <<>>
    /\ chartVisibilities = <<>>
    /\ rendered = <<>>
    /\ printed = <<>>
    /\ ServiceUnused /\ LocatorUnused /\ TokenUnused /\ LabelUnused /\ ListUnused /\ CacheUnused

\* loadCSVFile once its fetch has returned the parse of content: the data is
\* replaced, the first property is selected when none is, and the visibility
\* of every title is set.
FileLoaded(content) ==
    /\ LET d == parseCSV(content)
           props == PropertyOptions(d)
       IN  /\ csvContent' = content
           /\ csvData' = <<d>>
           /\ selectedProperty' = IF selectedProperty = <<>> /\ props # <<>>
                                  THEN <<props[1]>> ELSE selectedProperty
           /\ perTitleVisibility' = VisibilityMap(d, chartVisibilities)
    /\ UNCHANGED <<chartVisibilities, rendered, printed,
                   serviceVars, locatorVars, tokenVars, labelVars, listVars, cacheVars>>

NextReload ==
    \/ \E content \in ReloadContents : FileLoaded(content)
    \/ HandlePropertyChange

SpecReload == InitReload /\ [][NextReload]_vars

(***************************************************************************)
(* Properties of the selected property across loads                        *)
(***************************************************************************)

\* The Property values of the loaded table, as texts.
LoadedProperties ==
    {CellText(csvData[1].rows[k]["Property"]) : k \in 1..Len(csvData[1].rows)}
        \cup {Trim(CellText(csvData[1].rows[k]["Property"])) : k \in 1..Len(csvData[1].rows)}

\* C29: whenever data is loaded, selectedProperty is null or a Property
\* value of the loaded table (read as text, with or without its surrounding
\* blanks), also after an earlier file has set it.
C29_SelectedPropertyInLoadedTable ==
    (csvData # <<>> /\ selectedProperty # <<>>)
        => selectedProperty[1] \in LoadedProperties

(***************************************************************************)
(* Properties of category membership across the three readers              *)
(***************************************************************************)

\* The rows of the loaded table that every reader looks at for its title: a
\* property-detail title is a detail row for getPropertyDetails, a candidate
\* for getUnitTypeMap, and a non-blank title for the chart grouping.
DetailTitled ==
    {k \in 1..Len(LoadedData.rows) :
        IsDetailTitle(ToLowerCase(Trim(FirstTruthy(LoadedData.rows[k], <<"Title", "title">>))))}

\* C30: for the category shown, getUnitTypeMap takes a row as one of the
\* category exactly when getPropertyDetails does and exactly when the chart
\* grouping does, also when the row's Property differs from the category
\* only in letter case.
C30_ReadersAgreeOnCategoryRows ==
    (rendered # <<>> /\ selectedProperty # <<>>) =>
        \A k \in DetailTitled :
            LET r == LoadedData.rows[k]
                prop == selectedProperty[1]
            IN  /\ IsUnitCandidate(r, prop) <=> IsDetailRow(r, prop)
                /\ IsUnitCandidate(r, prop) <=> IsOfProperty(r, prop)

====
